---------------------------- MODULE Spec2Model ----------------------------
(***************************************************************************)
(* The Lambda packaging build tool: the static import resolver, the        *)
(* dependency tree walker, the function and layer packagers and the        *)
(* orchestrator (src/builder, src/build_system).                           *)
(*                                                                         *)
(* A source path is the sequence of its segments relative to               *)
(* config.src_dir: <<"domain", "order.py">> is src/domain/order.py.        *)
(***************************************************************************)
EXTENDS Integers, Sequences, FiniteSets, TLC

VARIABLES
    src,            \* the source tree: existing file path -> its content
    srcDirs,        \* the existing directories under (and including) src
    graphql,        \* the schema folder: existing file name -> its lines
    earlier,        \* what the build directory held when the run began
    visited,        \* _resolve_dependencies_recursive: the visited set
    reads,          \* the walk in progress: file -> the times it was read and parsed
    dependencies,   \* _resolve_dependencies_recursive: the result set
    stack,          \* the recursion of the walk: frames [file, todo]
    entry,          \* the file the walk in progress started from
    wpc,            \* where the walk is: "idle", "walking", "done"
    buildDirs,      \* the existing directories build, build/lambdas, ...
    staging,        \* existing staging directory -> its files (path -> content)
    archives,       \* existing archive -> its entries (arcname -> content)
    combined,       \* build/appsync: existing file name -> its lines
    unit,           \* the unit a builder's build() was last called for
    pc,             \* where that build() is
    ret,            \* what it returned: "none", "success", "failure", "raised"
    failedAt,       \* the step of it that raised, "none" when none did
    copyFailed,     \* the dependency files whose copy raised in it
    faults,         \* the I/O errors the file system has produced
    builds,         \* the calls of build() so far
    cleanOnly,      \* main: the --clean flag
    extracted,      \* whether devops/infrastructure/local/.extracted exists
    mpc,            \* where main and build_all are
    component,      \* _build_components: the component being built
    queue,          \* _build_components: the items still to build
    failed,         \* _build_components: the items that failed
    all_success,    \* build_all: all_success
    attempted,      \* the builds the run has made: <<unit, result>>
    steps,          \* the numbers logger.step was called with, in order
    exitCode,       \* what main returned, -1 before
    previous        \* the build() before the last one called: what it left

walkVars == <<visited, reads, dependencies, stack, entry, wpc>>
treeVars == <<src, srcDirs, graphql, earlier>>
fsVars   == <<buildDirs, staging, archives, combined>>
unitVars == <<unit, pc, ret, failedAt, copyFailed, faults, builds>>
orchVars == <<cleanOnly, extracted, mpc, component, queue, failed, all_success,
              attempted, steps, exitCode>>

(***************************************************************************)
(* Bounds of the model.                                                    *)
(***************************************************************************)
\* The import statements of the whole source tree, at most.
MaxImports == 4
\* The I/O errors of one run, at most.
MaxFaults == 1
\* The calls of a builder's build() in one run of the unit builds, at most.
MaxBuilds == 2

(***************************************************************************)
(* Paths and names.                                                        *)
(***************************************************************************)
None == <<"<None>">>

\* Path.parent
Parent(p) == IF Len(p) = 0 THEN p ELSE SubSeq(p, 1, Len(p) - 1)

\* Path.name
Name(p) == IF Len(p) = 0 THEN "" ELSE p[Len(p)]

RECURSIVE JoinDots(_)
\* ".".join(parts): the dotted module name of its segments
JoinDots(parts) ==
    IF Len(parts) = 0 THEN ""
    ELSE IF Len(parts) = 1 THEN parts[1]
    ELSE parts[1] \o "." \o JoinDots(Tail(parts))

\* The file stems the model's trees use; a name is a stem plus ".py".
Stems == {"order_handler", "user_handler", "_handler", "order", "money", "log", "db",
          "__init__", "domain.order", "domain.money", "json", "mail", "services.mail",
          "tool", "json.tool", "domain.models.order"}

\* A suffix test that leaves out the dot, which no Path.suffix matches.
SuffixIsPy_NoDot(p) == \E s \in Stems : Name(p) = s \o "py"

\* Path.suffix == '.py'
SuffixIsPy(p) == \E s \in Stems : Name(p) = s \o ".py"

\* str.endswith('_handler.py')
EndsWithHandlerPy(name) == \E pre \in {"order", "user", ""} : name = pre \o "_handler.py"

handlers_dir == <<"handlers">>

\* handlers_dir / f"{handler_name}.py"
HandlerFile(handler_name) == Append(handlers_dir, handler_name \o ".py")

(***************************************************************************)
(* The source tree.                                                        *)
(***************************************************************************)
\* Path.exists() of a source file
FileExists(p) == p \in DOMAIN src

\* Path.exists() and Path.is_dir() of a source directory
DirExists(d) == d \in srcDirs

\* A module reference as the code holds it: a string with `dots` leading
\* dots and then the dotted segments `parts`.
ModuleName(dots, parts) == [dots |-> dots, parts |-> parts]

\* An import statement of a file: `import a.b` (kind "import") or
\* `from <level dots><module> import x` (kind "from"; module <<>> when the
\* statement names none, as in `from . import x`).
ImportStmt(kind, level, module) == [kind |-> kind, level |-> level, module |-> module]

\* Whether the walker resolves a statement at all: every alias of an
\* ast.Import, and an ast.ImportFrom `if node.module`.
HasModuleArgument(stmt) == stmt.kind = "import" \/ Len(stmt.module) > 0

\* The module reference the walker hands to _resolve_import for one
\* statement: alias.name of an ast.Import, node.module of an ast.ImportFrom
\* (which holds no leading dots: the dots are node.level, which the walker
\* does not read).
ModuleArgument(stmt) == ModuleName(0, stmt.module)

(***************************************************************************)
(* The import resolver.                                                    *)
(***************************************************************************)
standard_libs == {"json", "datetime", "typing", "pathlib", "os", "sys", "re", "ast",
                  "shutil", "zipfile", "collections", "itertools", "functools",
                  "asyncio", "threading", "multiprocessing", "logging", "unittest"}

\* A classification that takes no name for a standard library module
IsStandardLibrary_Never(m) == FALSE

\* _is_standard_library: module_name.split('.')[0] in standard_libs; a
\* reference with leading dots splits to a first segment ''.
IsStandardLibrary(m) ==
    /\ m.dots = 0
    /\ Len(m.parts) > 0
    /\ m.parts[1] \in standard_libs

RECURSIVE Ascend(_, _)
\* for _ in range(n): target_dir = target_dir.parent
Ascend(dir, n) == IF n = 0 THEN dir ELSE Ascend(Parent(dir), n - 1)

\* _resolve_relative_import
ResolveRelativeImport(m, current_file) ==
    IF Len(m.parts) = 0 THEN None
    ELSE LET target_dir  == Ascend(Parent(current_file), m.dots - 1)
             module_file == Append(target_dir, JoinDots(m.parts) \o ".py")
             package_dir == Append(target_dir, JoinDots(m.parts))
             init_file   == Append(package_dir, "__init__.py")
         IN  IF FileExists(module_file) THEN module_file
             ELSE IF DirExists(package_dir) /\ FileExists(init_file) THEN init_file
             ELSE None

\* _resolve_absolute_import: the candidates, in the order the code tries them
PossiblePaths(parts) ==
    LET n == Len(parts)
    IN  <<  <<JoinDots(parts) \o ".py">>  >>
        \o (IF n > 1 THEN << <<parts[1], parts[n] \o ".py">> >> ELSE << >>)
        \o (IF n > 1 THEN << Append(SubSeq(parts, 1, n - 1), parts[n] \o ".py") >> ELSE << >>)

RECURSIVE FirstExisting(_)
FirstExisting(paths) ==
    IF Len(paths) = 0 THEN None
    ELSE IF FileExists(Head(paths)) THEN Head(paths)
    ELSE FirstExisting(Tail(paths))

\* _resolve_absolute_import
ResolveAbsoluteImport(m) ==
    LET parts     == m.parts
        n         == Len(parts)
        found     == FirstExisting(PossiblePaths(parts))
        init_file == Append(parts, "__init__.py")
        py_file   == Append(SubSeq(parts, 1, n - 1), parts[n] \o ".py")
    IN  IF found # None THEN found
        ELSE IF FileExists(init_file) THEN init_file
        ELSE IF FileExists(py_file) THEN py_file
        ELSE None

\* _resolve_import, up to the recursion: the existing file a module
\* reference found in current_file resolves to, or None
ResolveImport(m, current_file) ==
    IF IsStandardLibrary(m) THEN None
    ELSE LET resolved_path ==
                 IF m.dots > 0 THEN ResolveRelativeImport(m, current_file)
                 ELSE ResolveAbsoluteImport(m)
         IN  IF resolved_path # None /\ FileExists(resolved_path) THEN resolved_path
             ELSE None

\* No unit: before the first build()
NoUnit == [kind |-> "none", name |-> ""]

\* No build() yet
NoBuild == [unit |-> NoUnit, ret |-> "none", copyFailed |-> {}, archive |-> << >>]

(***************************************************************************)
(* The dependency tree walker.                                             *)
(***************************************************************************)
\* The content of a source file: its import statements as written, and
\* whether ast.parse succeeds on its text (a file with a syntax error has
\* parses = FALSE; its text can still be read and copied).
FileContent(imports, parses) == [imports |-> imports, parses |-> parses]

\* A walker without the check of the visited set
AlreadyWalked_Never(file_path) == FALSE

\* `if file_path in visited: return`
AlreadyWalked(file_path) == file_path \in visited

\* A call that does not go into the loop of a file found two calls deep
CallFrames_DepthLimited(file_path) ==
    IF AlreadyWalked(file_path) THEN << >>
    ELSE IF ~FileExists(file_path) \/ ~SuffixIsPy(file_path) THEN << >>
    ELSE IF ~src[file_path].parses \/ Len(stack) >= 2 THEN << >>
    ELSE << [file |-> file_path, todo |-> src[file_path].imports] >>

\* A call that goes into the loop over the imports of a file whatever
\* ast.parse made of it
CallFrames_ParsesAnyway(file_path) ==
    IF AlreadyWalked(file_path) THEN << >>
    ELSE IF ~FileExists(file_path) \/ ~SuffixIsPy(file_path) THEN << >>
    ELSE << [file |-> file_path, todo |-> src[file_path].imports] >>

\* A call of _resolve_dependencies_recursive(file_path) up to its loop: the
\* frames it pushes. None when the file was visited, does not exist, is no
\* .py file, or cannot be read and parsed (the exception is logged).
CallFrames(file_path) ==
    IF AlreadyWalked(file_path) THEN << >>
    ELSE IF ~FileExists(file_path) \/ ~SuffixIsPy(file_path) THEN << >>
    ELSE IF ~src[file_path].parses THEN << >>
    ELSE << [file |-> file_path, todo |-> src[file_path].imports] >>

\* `visited.add(file_path)`
CallVisited(file_path) == visited \cup {file_path}

\* The reads so far and one more of file_path
ReadOnceMore(file_path) ==
    (file_path :> (IF file_path \in DOMAIN reads THEN reads[file_path] + 1 ELSE 1)) @@ reads

\* A call of _resolve_dependencies_recursive(file_path) up to its loop:
\* whether it gets to `content = file_path.read_text(...)` and ast.parse
\* (which may then raise)
CallReads(file_path) ==
    IF AlreadyWalked(file_path) THEN reads
    ELSE IF ~FileExists(file_path) \/ ~SuffixIsPy(file_path) THEN reads
    ELSE ReadOnceMore(file_path)

\* A walker that adds a file to the result only on its first visit.
AddDependency_UnlessVisited(resolved_path) ==
    IF resolved_path \in visited THEN dependencies ELSE dependencies \cup {resolved_path}

\* `dependencies.add(resolved_path)`
AddDependency(resolved_path) == dependencies \cup {resolved_path}

\* _analyze_dependency_tree(handler_file), to the first call of the walk
AnalyzeDependencyTree(handler_file) ==
    /\ wpc = "idle"
    /\ entry' = handler_file
    /\ visited' = {handler_file}
    /\ reads' = IF ~FileExists(handler_file) \/ ~SuffixIsPy(handler_file) THEN << >>
                ELSE (handler_file :> 1)
    /\ dependencies' = {}
    /\ LET frames == IF ~FileExists(handler_file) \/ ~SuffixIsPy(handler_file) THEN << >>
                     ELSE IF ~src[handler_file].parses THEN << >>
                     ELSE << [file |-> handler_file, todo |-> src[handler_file].imports] >>
       IN  /\ stack' = frames
           /\ wpc' = IF frames = << >> THEN "done" ELSE "walking"
    /\ UNCHANGED treeVars

\* One turn of the loop over the import statements of the file on top of
\* the recursion: _resolve_import of one statement, and with it the start
\* of the recursive call on the file it resolves to.
ResolveNextImport ==
    /\ wpc = "walking"
    /\ Len(stack) > 0
    /\ LET top == stack[Len(stack)]
       IN  \E stmt \in top.todo :
             LET rest     == [stack EXCEPT ![Len(stack)].todo = top.todo \ {stmt}]
                 resolved == IF HasModuleArgument(stmt)
                             THEN ResolveImport(ModuleArgument(stmt), top.file)
                             ELSE None
             IN  IF resolved = None
                 THEN /\ stack' = rest
                      /\ UNCHANGED <<visited, reads, dependencies>>
                 ELSE /\ dependencies' = AddDependency(resolved)
                      /\ visited' = CallVisited(resolved)
                      /\ reads' = CallReads(resolved)
                      /\ stack' = rest \o CallFrames(resolved)
    /\ UNCHANGED <<entry, wpc, treeVars>>

\* The loop of the file on top of the recursion is over: the call returns;
\* the return of the first call ends the walk.
ReturnFromFile ==
    /\ wpc = "walking"
    /\ Len(stack) > 0
    /\ stack[Len(stack)].todo = {}
    /\ stack' = SubSeq(stack, 1, Len(stack) - 1)
    /\ wpc' = IF Len(stack) = 1 THEN "done" ELSE "walking"
    /\ UNCHANGED <<visited, reads, dependencies, entry, treeVars>>


(***************************************************************************)
(* The build directory and the steps shared by the builders.               *)
(***************************************************************************)
\* A function without the key k
Remove(f, k) == [d \in DOMAIN f \ {k} |-> f[d]]

\* A function with k set to v
Put(f, k, v) == (k :> v) @@ f

lambdas_dir == <<"lambdas">>
layers_dir  == <<"layers">>

\* lambdas_dir / handler_name
HandlerBuild(handler_name) == Append(lambdas_dir, handler_name)

\* lambdas_dir / f"{handler_name}.zip"
HandlerZip(handler_name) == Append(lambdas_dir, handler_name \o ".zip")

\* layers_dir / f"{layer_name}_temp"
LayerTemp(layer_name) == Append(layers_dir, layer_name \o "_temp")

\* layers_dir / f"{layer_name}.zip"
LayerZip(layer_name) == Append(layers_dir, layer_name \o ".zip")

\* Whether the file system may fail the next I/O operation
MayFail == IF faults < MaxFaults THEN {FALSE, TRUE} ELSE {FALSE}

\* What build() returns from `except Exception`.
ExceptException == "failure"

\* build() leaving through `except Exception` after the step `step` raised
Raise(step) ==
    /\ failedAt' = step
    /\ ret' = ExceptException
    /\ pc' = "returned"

\* The file system fails the I/O operation of `step`, which raises
Fault(step) ==
    /\ faults' = faults + 1
    /\ Raise(step)

\* BaseBuilder.cleanup_directory(path) followed by
\* BaseBuilder.create_directory(path): the staging directory afresh; either
\* may raise (a cleanup that raised leaves the directory).
CleanAndCreate(path, parent, next) ==
    /\ \E fail \in MayFail :
         IF fail
         THEN \/ /\ path \in DOMAIN staging
                 /\ Fault("cleanup")
                 /\ UNCHANGED <<staging, buildDirs>>
              \/ /\ Fault("mkdir")
                 /\ staging' = Remove(staging, path)
                 /\ UNCHANGED buildDirs
         ELSE /\ staging' = Put(staging, path, << >>)
              /\ buildDirs' = buildDirs \cup {<< >>, parent}
              /\ pc' = next
              /\ UNCHANGED <<ret, failedAt, faults>>
    /\ UNCHANGED <<archives, combined, unit, copyFailed, builds>>

\* The archives a write that raised may leave behind: any part of the files.
PartialArchives(files) ==
    {[a \in D |-> files[a]] : D \in (SUBSET DOMAIN files) \ {DOMAIN files}}

\* _create_zip(source_dir, zip_path): unlink the archive if it exists, then
\* write every file of source_dir under its path relative to source_dir.
\* The unlink may raise (the old archive stays); opening the new archive may
\* raise (no archive); a write may raise (the archive holds what was written).
CreateZip(source_dir, zip_path, next) ==
    /\ \E fail \in MayFail :
         IF fail
         THEN \/ /\ zip_path \in DOMAIN archives
                 /\ Fault("zip_unlink")
                 /\ UNCHANGED archives
              \/ /\ Fault("zip_write")
                 /\ archives' = Remove(archives, zip_path)
              \/ /\ Fault("zip_write")
                 /\ \E part \in PartialArchives(staging[source_dir]) :
                        archives' = Put(archives, zip_path, part)
         ELSE /\ archives' = Put(archives, zip_path, staging[source_dir])
              /\ pc' = next
              /\ UNCHANGED <<ret, failedAt, faults>>
    /\ UNCHANGED <<staging, buildDirs, combined, unit, copyFailed, builds>>

\* The closing cleanup_directory(path) of a build, and `return True`
CleanupAndReturn(path) ==
    /\ \E fail \in MayFail :
         IF fail
         THEN /\ Fault("cleanup_after")
              /\ UNCHANGED staging
         ELSE /\ staging' = Remove(staging, path)
              /\ ret' = "success"
              /\ pc' = "returned"
              /\ UNCHANGED <<failedAt, faults>>
    /\ UNCHANGED <<archives, buildDirs, combined, unit, copyFailed, builds>>

(***************************************************************************)
(* LambdaBuilder.build                                                     *)
(***************************************************************************)
\* An inclusion test that lets every file of the tree in.
ShouldIncludeFile_Everything(relative_path) == Len(relative_path) > 0

\* _should_include_file(relative_path)
ShouldIncludeFile(relative_path) ==
    \/ Len(relative_path) > 0 /\ relative_path[1] \in {"application", "domain", "orm"}
    \/ EndsWithHandlerPy(Name(relative_path))

\* A build() that cleans the previous build before it looks for the file.
LambdaBuild_CleanFirst(handler_name) ==
    /\ pc \in {"idle", "returned"}
    /\ unit' = [kind |-> "lambda", name |-> handler_name]
    /\ builds' = builds + 1
    /\ copyFailed' = {}
    /\ failedAt' = "none"
    /\ staging' = Put(Remove(staging, HandlerBuild(handler_name)),
                      HandlerBuild(handler_name), << >>)
    /\ IF FileExists(HandlerFile(handler_name))
       THEN pc' = "analyze" /\ ret' = "none"
       ELSE pc' = "returned" /\ ret' = "failure"
    /\ UNCHANGED <<faults, buildDirs, archives, combined, walkVars, treeVars>>
    /\ UNCHANGED orchVars

\* build(handler_name) to its first step: the handler file must exist
LambdaBuild(handler_name) ==
    /\ pc \in {"idle", "returned"}
    /\ unit' = [kind |-> "lambda", name |-> handler_name]
    /\ builds' = builds + 1
    /\ copyFailed' = {}
    /\ failedAt' = "none"
    /\ IF FileExists(HandlerFile(handler_name))
       THEN pc' = "clean" /\ ret' = "none"
       ELSE pc' = "returned" /\ ret' = "failure"
    /\ UNCHANGED <<faults, fsVars, walkVars, treeVars>>
    /\ UNCHANGED orchVars

\* `# Clean previous build`
LambdaCleanPreviousBuild ==
    /\ pc = "clean"
    /\ unit.kind = "lambda"
    /\ CleanAndCreate(HandlerBuild(unit.name), lambdas_dir, "analyze")
    /\ UNCHANGED <<walkVars, treeVars>>
    /\ UNCHANGED <<orchVars, previous>>

\* `dependency_tree = self._analyze_dependency_tree(handler_file)`: the call
LambdaAnalyze ==
    /\ pc = "analyze"
    /\ AnalyzeDependencyTree(HandlerFile(unit.name))
    /\ pc' = "walk"
    /\ UNCHANGED <<unit, ret, failedAt, copyFailed, faults, builds, fsVars>>
    /\ UNCHANGED <<orchVars, previous>>

\* _copy_handler_file(handler_file, handler_build), once the walk returned
LambdaCopyHandlerFile ==
    /\ pc = "walk"
    /\ wpc = "done"
    /\ wpc' = "idle"
    /\ LET handler_file == HandlerFile(unit.name)
           dest_dir     == HandlerBuild(unit.name)
           dest_file    == <<Name(handler_file)>>
       IN  \E fail \in MayFail :
             IF fail
             THEN /\ Fault("copy_handler")
                  /\ UNCHANGED staging
             ELSE /\ staging' = [staging EXCEPT
                        ![dest_dir] = Put(@, dest_file, src[handler_file])]
                  /\ pc' = "copy_deps"
                  /\ UNCHANGED <<ret, failedAt, faults>>
    /\ UNCHANGED <<visited, reads, dependencies, stack, entry, archives, buildDirs,
                   combined, unit, copyFailed, builds, treeVars>>
    /\ UNCHANGED <<orchVars, previous>>

\* _copy_dependency_files(handler_build, dependency_tree): every file of the
\* tree that _should_include_file, at its path relative to src; a copy that
\* raises is logged as a warning and the loop goes on.
LambdaCopyDependencyFiles ==
    /\ pc = "copy_deps"
    /\ LET dest_dir == HandlerBuild(unit.name)
           included == {f \in dependencies : ShouldIncludeFile(f)}
       IN  \E raising \in SUBSET included :
             /\ Cardinality(raising) + faults <= MaxFaults
             /\ copyFailed' = raising
             /\ faults' = faults + Cardinality(raising)
             /\ staging' = [staging EXCEPT
                   ![dest_dir] = [f \in included \ raising |-> src[f]] @@ @]
    /\ pc' = "zip"
    /\ UNCHANGED <<ret, failedAt, archives, buildDirs, combined, unit, builds, walkVars, treeVars>>
    /\ UNCHANGED <<orchVars, previous>>

\* `self._create_zip(handler_build, handler_zip)`
LambdaCreateZip ==
    /\ pc = "zip"
    /\ unit.kind = "lambda"
    /\ CreateZip(HandlerBuild(unit.name), HandlerZip(unit.name), "cleanup")
    /\ UNCHANGED <<walkVars, treeVars>>
    /\ UNCHANGED <<orchVars, previous>>

\* `# Cleanup extracted directory` and `return True`
LambdaCleanup ==
    /\ pc = "cleanup"
    /\ unit.kind = "lambda"
    /\ CleanupAndReturn(HandlerBuild(unit.name))
    /\ UNCHANGED <<walkVars, treeVars>>
    /\ UNCHANGED <<orchVars, previous>>

\* The walk inside a build
LambdaWalk ==
    /\ pc = "walk"
    /\ ResolveNextImport \/ ReturnFromFile
    /\ UNCHANGED <<fsVars, unitVars>>
    /\ UNCHANGED <<orchVars, previous>>

(***************************************************************************)
(* LayerBuilder.build                                                      *)
(***************************************************************************)
\* A copytree that puts the files of the layer folder right under layer_temp
LayerFiles_NoWrapper(layer_name) ==
    LET under == {f \in DOMAIN src : Len(f) > 1 /\ f[1] = layer_name}
    IN  [a \in under |-> src[a]]

\* The files of the layer folder, as shutil.copytree puts them under
\* layer_temp / "python" / layer_name
LayerFiles(layer_name) ==
    LET under == {f \in DOMAIN src : Len(f) > 1 /\ f[1] = layer_name}
    IN  [a \in {<<"python">> \o f : f \in under} |-> src[Tail(a)]]

\* build(layer_name) to its first step: the layer folder must exist
LayerBuild(layer_name) ==
    /\ pc \in {"idle", "returned"}
    /\ unit' = [kind |-> "layer", name |-> layer_name]
    /\ builds' = builds + 1
    /\ copyFailed' = {}
    /\ failedAt' = "none"
    /\ IF DirExists(<<layer_name>>)
       THEN pc' = "clean" /\ ret' = "none"
       ELSE pc' = "returned" /\ ret' = "failure"
    /\ UNCHANGED <<faults, fsVars, walkVars, treeVars>>
    /\ UNCHANGED orchVars

\* `# Create temporary layer structure`
LayerCreateTemp ==
    /\ pc = "clean"
    /\ unit.kind = "layer"
    /\ CleanAndCreate(LayerTemp(unit.name), layers_dir, "copytree")
    /\ UNCHANGED <<walkVars, treeVars>>
    /\ UNCHANGED <<orchVars, previous>>

\* `shutil.copytree(src_layer, layer_temp / "python" / layer_name)`; a copy
\* that raises leaves what it had copied.
LayerCopyTree ==
    /\ pc = "copytree"
    /\ LET layer_temp == LayerTemp(unit.name)
           files      == LayerFiles(unit.name)
       IN  \E fail \in MayFail :
             IF fail
             THEN /\ Fault("copytree")
                  /\ \E part \in PartialArchives(files) :
                        staging' = [staging EXCEPT ![layer_temp] = part]
             ELSE /\ staging' = [staging EXCEPT ![layer_temp] = files]
                  /\ pc' = "zip"
                  /\ UNCHANGED <<ret, failedAt, faults>>
    /\ UNCHANGED <<archives, buildDirs, combined, unit, copyFailed, builds, walkVars, treeVars>>
    /\ UNCHANGED <<orchVars, previous>>

\* `self._create_zip(layer_temp, zip_path)`
LayerCreateZip ==
    /\ pc = "zip"
    /\ unit.kind = "layer"
    /\ CreateZip(LayerTemp(unit.name), LayerZip(unit.name), "cleanup")
    /\ UNCHANGED <<walkVars, treeVars>>
    /\ UNCHANGED <<orchVars, previous>>

\* `# Cleanup temp directory` and `return True`
LayerCleanup ==
    /\ pc = "cleanup"
    /\ unit.kind = "layer"
    /\ CleanupAndReturn(LayerTemp(unit.name))
    /\ UNCHANGED <<walkVars, treeVars>>
    /\ UNCHANGED <<orchVars, previous>>

(***************************************************************************)
(* AppSyncBuilder.build                                                    *)
(*                                                                         *)
(* A text is the sequence of its lines, as str.split('\n') gives them (one *)
(* blank line for the empty string); a line is what the builder tells      *)
(* apart: an import directive, a `type Name {` declaration, a `}`, a       *)
(* `# ...` comment, a blank line, or any other line.                       *)
(***************************************************************************)
Line(kind, arg) == [kind |-> kind, arg |-> arg]

BlankLine == Line("blank", "")

\* `import "<path>"`, the path with or without a leading ./
ImportLine(import_path) == Line("import", import_path)

\* f"# Imported from {import_path}"
ImportedFromLine(import_path) == Line("comment", import_path)

\* '\n'.join(output_lines)
JoinLines(output_lines) == IF output_lines = << >> THEN <<BlankLine>> ELSE output_lines

\* `text.strip()` is non-empty
StripNonEmpty(text) == \E i \in 1..Len(text) : text[i].kind # "blank"

\* graphql_dir / import_path, a leading ./ dropped
FullPath(import_path) == import_path.name

\* An import path, written with a leading ./ or without
ImportPath(dotslash, name) == [dotslash |-> dotslash, name |-> name]

RECURSIVE ProcessSchema(_, _)
RECURSIVE ProcessLines(_, _, _, _)
RECURSIVE ProcessLines_OwnProcessed(_, _, _, _)

\* _process_schema(file_path, processed, import_map): the combined text,
\* the files processed, and whether it raised (a missing or unreadable file)
ProcessSchema(file_path, processed) ==
    IF file_path \in processed
    THEN [out |-> <<BlankLine>>, processed |-> processed, raised |-> FALSE]
    ELSE IF file_path \notin DOMAIN graphql
    THEN [out |-> <<BlankLine>>, processed |-> processed \cup {file_path}, raised |-> TRUE]
    ELSE ProcessLines(graphql[file_path], 1, << >>, processed \cup {file_path})

\* A loop in which every import starts from the files processed before
\* the loop, as if each call had a copy of the set
ProcessLines_OwnProcessed(lines, i, output_lines, processed) ==
    IF i > Len(lines)
    THEN [out |-> JoinLines(output_lines), processed |-> processed, raised |-> FALSE]
    ELSE IF lines[i].kind = "import"
    THEN LET imported == ProcessSchema(FullPath(lines[i].arg), processed)
         IN  IF imported.raised
             THEN [out |-> <<BlankLine>>, processed |-> imported.processed, raised |-> TRUE]
             ELSE ProcessLines_OwnProcessed(lines, i + 1,
                      IF StripNonEmpty(imported.out)
                      THEN output_lines \o <<ImportedFromLine(lines[i].arg)>>
                           \o imported.out \o <<BlankLine>>
                      ELSE output_lines,
                      processed)
    ELSE ProcessLines_OwnProcessed(lines, i + 1, Append(output_lines, lines[i]), processed)

\* The loop of _process_schema over the lines from the i-th on
ProcessLines(lines, i, output_lines, processed) ==
    IF i > Len(lines)
    THEN [out |-> JoinLines(output_lines), processed |-> processed, raised |-> FALSE]
    ELSE IF lines[i].kind = "import"
    THEN LET imported == ProcessSchema(FullPath(lines[i].arg), processed)
         IN  IF imported.raised
             THEN [out |-> <<BlankLine>>, processed |-> imported.processed, raised |-> TRUE]
             ELSE ProcessLines(lines, i + 1,
                      IF StripNonEmpty(imported.out)
                      THEN output_lines \o <<ImportedFromLine(lines[i].arg)>>
                           \o imported.out \o <<BlankLine>>
                      ELSE output_lines,
                      imported.processed)
    ELSE ProcessLines(lines, i + 1, Append(output_lines, lines[i]), processed)

\* The number of lines of a text that satisfy Test
CountLines(text, Test(_)) == Cardinality({i \in 1..Len(text) : Test(text[i])})

\* A validation without the check for duplicate type definitions
ValidateSchema_NoDuplicateCheck(schema_content) ==
    LET IsOpen(l)  == l.kind = "type"
        IsClose(l) == l.kind = "close"
    IN  /\ StripNonEmpty(schema_content)
        /\ CountLines(schema_content, IsOpen) = CountLines(schema_content, IsClose)

\* _validate_schema(schema_content, schema_name)
ValidateSchema(schema_content) ==
    LET IsOpen(l)  == l.kind = "type"
        IsClose(l) == l.kind = "close"
        type_definitions == {i \in 1..Len(schema_content) : schema_content[i].kind = "type"}
        duplicate_types  == {schema_content[i].arg : i \in
                               {j \in type_definitions :
                                  \E k \in type_definitions :
                                     k # j /\ schema_content[k].arg = schema_content[j].arg}}
    IN  /\ StripNonEmpty(schema_content)
        /\ duplicate_types = {}
        /\ CountLines(schema_content, IsOpen) = CountLines(schema_content, IsClose)

appsync_dir == <<"appsync">>

\* graphql_dir / f"{schema_name}.graphql"
SchemaFile(schema_name) == schema_name \o ".graphql"

\* build(schema_name): process the schema file, validate the combined
\* schema and write it to appsync_dir. Reading may raise, _process_schema
\* raises on a missing import, the write raises when appsync_dir does not
\* exist or the file system fails it (the output is then left truncated).
AppSyncBuild(schema_name) ==
    /\ pc \in {"idle", "returned"}
    /\ unit' = [kind |-> "schema", name |-> schema_name]
    /\ builds' = builds + 1
    /\ copyFailed' = {}
    /\ pc' = "returned"
    /\ LET schema_file == SchemaFile(schema_name)
           output_file == SchemaFile(schema_name)
           result      == ProcessSchema(schema_file, {})
       IN  IF schema_file \notin DOMAIN graphql
           THEN /\ ret' = "failure"
                /\ failedAt' = "none"
                /\ UNCHANGED <<faults, combined>>
           ELSE \E fail \in MayFail :
                  IF fail
                  THEN /\ faults' = faults + 1
                       /\ ret' = ExceptException
                       /\ \/ failedAt' = "read" /\ UNCHANGED combined
                          \/ /\ ~result.raised
                             /\ ValidateSchema(result.out)
                             /\ appsync_dir \in buildDirs
                             /\ failedAt' = "write"
                             /\ combined' = Put(combined, output_file, <<BlankLine>>)
                  ELSE /\ UNCHANGED faults
                       /\ IF result.raised
                          THEN /\ ret' = ExceptException
                               /\ failedAt' = "import"
                               /\ UNCHANGED combined
                          ELSE IF ~ValidateSchema(result.out)
                          THEN /\ ret' = "failure"
                               /\ failedAt' = "none"
                               /\ UNCHANGED combined
                          ELSE IF appsync_dir \notin buildDirs
                          THEN /\ ret' = ExceptException
                               /\ failedAt' = "write"
                               /\ UNCHANGED combined
                          ELSE /\ ret' = "success"
                               /\ failedAt' = "none"
                               /\ combined' = Put(combined, output_file, result.out)
    /\ UNCHANGED <<buildDirs, staging, archives, walkVars, treeVars>>
    /\ UNCHANGED orchVars

(***************************************************************************)
(* The source trees of the walk.                                           *)
(***************************************************************************)
OrderHandler == HandlerFile("order_handler")
DomainOrder  == <<"domain", "order.py">>
DomainMoney  == <<"domain", "money.py">>
UtilsLog     == <<"utils", "log.py">>

FromOrderHandler == ImportStmt("from", 0, <<"handlers", "order_handler">>)
FromDomainOrder  == ImportStmt("from", 0, <<"domain", "order">>)
FromDomainMoney  == ImportStmt("from", 0, <<"domain", "money">>)
FromUtilsLog     == ImportStmt("from", 0, <<"utils", "log">>)
ImportJson       == ImportStmt("import", 0, <<"json">>)
FromDotImport    == ImportStmt("from", 1, << >>)
\* `from .money import Money`, as written in domain/order.py
FromDotMoney     == ImportStmt("from", 1, <<"money">>)

WalkFiles == {OrderHandler, DomainOrder, DomainMoney, UtilsLog}

\* The (file, statement) pairs a tree of the walk draws its imports from.
WalkPairs ==
    (WalkFiles \X {FromOrderHandler, FromDomainOrder, FromDomainMoney, FromUtilsLog})
    \cup ({OrderHandler, DomainOrder} \X {ImportJson})
    \cup {<<OrderHandler, FromDotImport>>, <<DomainOrder, FromDotMoney>>}

RECURSIVE SubsetsUpTo(_, _)
\* The subsets of S of at most k elements
SubsetsUpTo(S, k) ==
    IF k = 0 \/ S = {} THEN {{}}
    ELSE LET x == CHOOSE y \in S : TRUE
         IN  SubsetsUpTo(S \ {x}, k) \cup {T \cup {x} : T \in SubsetsUpTo(S \ {x}, k - 1)}

\* The tree of the files `existing` with the import statements `pairs`, the
\* files of `broken` failing to parse.
TreeOf(existing, pairs, broken) ==
    [f \in existing |->
        FileContent({q[2] : q \in {r \in pairs : r[1] = f}}, f \notin broken)]

\* The directories of a set of files: src itself and every ancestor.
DirsOf(files) ==
    {<< >>} \cup UNION {{SubSeq(f, 1, i) : i \in 1..(Len(f) - 1)} : f \in files}

\* The candidates of the reference domain.models.order
ModelsOrder     == <<"domain", "models", "order.py">>
ModelsOrderInit == <<"domain", "models", "order", "__init__.py">>

FromDomainModelsOrder == ImportStmt("from", 0, <<"domain", "models", "order">>)

\* order_handler.py imports domain.models.order, and any of the files that
\* reference may mean exists.
DeepTrees ==
    {TreeOf({OrderHandler} \cup candidates, {<<OrderHandler, FromDomainModelsOrder>>}, {}) :
        candidates \in SUBSET {ModelsOrder, DomainOrder, ModelsOrderInit}}

\* First-party files that bear the name of a standard library module
RootJson == <<"json.py">>
JsonInit == <<"json", "__init__.py">>
JsonTool == <<"json", "tool.py">>

ImportJsonTool == ImportStmt("import", 0, <<"json", "tool">>)

\* order_handler.py and domain/order.py import json, json.tool and each
\* other, and src holds json.py, the package json, both or neither.
StdlibTrees ==
    {TreeOf({OrderHandler, DomainOrder} \cup shadows, pairs, {}) :
        shadows \in {{}, {RootJson}, {JsonInit, JsonTool}, {RootJson, JsonInit, JsonTool}},
        pairs \in SUBSET {<<OrderHandler, ImportJson>>, <<OrderHandler, ImportJsonTool>>,
                          <<OrderHandler, FromDomainOrder>>, <<DomainOrder, ImportJson>>}}

WalkTrees ==
    {TreeOf(WalkFiles \ missing, pairs, broken) :
        missing \in {{}, {UtilsLog}},
        broken \in {{}, {DomainOrder}},
        pairs \in SubsetsUpTo(WalkPairs, MaxImports)}
    \cup DeepTrees
    \cup StdlibTrees

InitWalk ==
    /\ src \in WalkTrees
    /\ srcDirs = DirsOf(DOMAIN src)
    /\ graphql = << >>
    /\ visited = {}
    /\ reads = << >>
    /\ dependencies = {}
    /\ stack = << >>
    /\ entry = None
    /\ wpc = "idle"
    /\ buildDirs = {}
    /\ staging = << >>
    /\ archives = << >>
    /\ combined = << >>
    /\ earlier = [staging |-> staging, archives |-> archives, combined |-> combined]
    /\ unit = NoUnit
    /\ pc = "idle"
    /\ ret = "none"
    /\ failedAt = "none"
    /\ copyFailed = {}
    /\ faults = 0
    /\ builds = 0
    /\ cleanOnly = FALSE
    /\ extracted = FALSE
    /\ mpc = "none"
    /\ component = "none"
    /\ queue = << >>
    /\ failed = << >>
    /\ all_success = TRUE
    /\ attempted = << >>
    /\ steps = << >>
    /\ exitCode = -1
    /\ previous = NoBuild

NextWalk ==
    \/ AnalyzeDependencyTree(OrderHandler) /\ UNCHANGED <<fsVars, unitVars, orchVars, previous>>
    \/ ResolveNextImport /\ UNCHANGED <<fsVars, unitVars, orchVars, previous>>
    \/ ReturnFromFile /\ UNCHANGED <<fsVars, unitVars, orchVars, previous>>

vars == <<treeVars, walkVars, fsVars, unitVars, orchVars, previous>>

SpecWalk == InitWalk /\ [][NextWalk]_vars

(***************************************************************************)
(* The unit builds: one builder's build(), called for the same unit up to  *)
(* MaxBuilds times, on a build directory that is empty or holds what an    *)
(* earlier run left.                                                       *)
(***************************************************************************)
\* What the last build() left, as its caller finds it when it calls the
\* next: the unit, the result, the copies that raised, and the archive of
\* the unit (empty when there is none).
LastBuild ==
    LET zip == IF unit.kind = "lambda" THEN HandlerZip(unit.name) ELSE LayerZip(unit.name)
    IN  [unit |-> unit, ret |-> ret, copyFailed |-> copyFailed,
         archive |-> IF unit.kind \in {"lambda", "layer"} /\ zip \in DOMAIN archives
                     THEN archives[zip] ELSE << >>]

UserHandler == HandlerFile("user_handler")
AdaptersDb  == <<"adapters", "db.py">>

FromUserHandler == ImportStmt("from", 0, <<"handlers", "user_handler">>)

UnitFiles == {OrderHandler, UserHandler, DomainOrder, DomainMoney, UtilsLog, AdaptersDb}

UnitPairs ==
    {<<OrderHandler, FromDomainOrder>>, <<OrderHandler, FromUtilsLog>>,
     <<OrderHandler, FromUserHandler>>, <<DomainOrder, FromDomainMoney>>,
     <<DomainOrder, FromOrderHandler>>}

\* order_handler imports domain.order and handlers.user_handler,
\* domain.order imports domain.money, and one of the files has a syntax
\* error.
BrokenTrees ==
    {TreeOf(UnitFiles, {<<OrderHandler, FromDomainOrder>>, <<OrderHandler, FromUserHandler>>,
                        <<DomainOrder, FromDomainMoney>>}, {broken}) :
        broken \in {OrderHandler, DomainOrder, DomainMoney}}

\* The trees of the unit builds; one has neither the handler file nor the
\* layer folder, and the last ones have a file that does not parse.
UnitTrees ==
    {TreeOf(UnitFiles, pairs, {}) : pairs \in SubsetsUpTo(UnitPairs, MaxImports)}
    \cup {TreeOf({UserHandler, DomainOrder}, {}, {})}
    \cup BrokenTrees

\* What an earlier run of older sources left
OldContent == FileContent({ImportStmt("import", 0, <<"old">>)}, TRUE)
OldFiles == (<<"order_handler.py">> :> OldContent) @@ (<<"old.py">> :> OldContent)

\* The schema folders of the unit builds: schema.graphql imports some of
\* types/order.graphql (with and without ./) and a file that does not exist;
\* types/order.graphql may import schema.graphql back, may declare Query a second
\* time, and may lack a closing brace.
QueryType == <<Line("type", "Query"), Line("field", "orders"), Line("close", "")>>

SchemaDoc(imports) ==
    [j \in 1..Len(imports) |-> ImportLine(imports[j])] \o QueryType

TypesDoc(back, flaw) ==
    (IF back THEN <<ImportLine(ImportPath(FALSE, "schema.graphql"))>> ELSE << >>)
    \o <<Line("type", IF flaw = "duplicate" THEN "Query" ELSE "Order"), Line("field", "id")>>
    \o (IF flaw = "brace" THEN << >> ELSE <<Line("close", "")>>)

\* A file of one type, after its imports
TypeDoc(imports, name, field) ==
    [j \in 1..Len(imports) |-> ImportLine(imports[j])]
    \o <<Line("type", name), Line("field", field), Line("close", "")>>

\* schema.graphql imports itself
SelfImportFolder ==
    ("schema.graphql" :> SchemaDoc(<<ImportPath(FALSE, "schema.graphql")>>))

\* A diamond: schema.graphql imports types/order.graphql and
\* types/user.graphql, and both import types/money.graphql
DiamondFolder ==
    ("schema.graphql" :> SchemaDoc(<<ImportPath(TRUE, "types/order.graphql"),
                                     ImportPath(FALSE, "types/user.graphql")>>))
    @@ ("types/order.graphql" :>
            TypeDoc(<<ImportPath(FALSE, "types/money.graphql")>>, "Order", "id"))
    @@ ("types/user.graphql" :>
            TypeDoc(<<ImportPath(TRUE, "types/money.graphql")>>, "User", "name"))
    @@ ("types/money.graphql" :> TypeDoc(<< >>, "Money", "amount"))

\* schema.graphql is a blank line
BlankFolder == ("schema.graphql" :> <<BlankLine>>)

\* schema.graphql declares neither Query nor Mutation
NoQueryFolder == ("schema.graphql" :> TypeDoc(<< >>, "Order", "id"))

SchemaFolders ==
    {("schema.graphql" :> SchemaDoc(imports)) @@ ("types/order.graphql" :> TypesDoc(back, flaw)) :
        imports \in {<< >>,
                     <<ImportPath(TRUE, "types/order.graphql")>>,
                     <<ImportPath(FALSE, "missing.graphql")>>,
                     <<ImportPath(TRUE, "types/order.graphql"), ImportPath(FALSE, "types/order.graphql")>>},
        back \in BOOLEAN,
        flaw \in {"none", "duplicate", "brace"}}
    \cup {<< >>, SelfImportFolder, DiamondFolder, BlankFolder, NoQueryFolder}

\* The spec's example: order_handler imports domain.order, which imports
\* domain.money
ExampleTree ==
    TreeOf(UnitFiles, {<<OrderHandler, FromDomainOrder>>, <<DomainOrder, FromDomainMoney>>}, {})

InitUnit ==
    /\ \/ /\ src \in UnitTrees
          /\ graphql = << >>
       \/ /\ src = ExampleTree
          /\ graphql \in SchemaFolders
    /\ srcDirs = DirsOf(DOMAIN src)
    /\ visited = {}
    /\ reads = << >>
    /\ dependencies = {}
    /\ stack = << >>
    /\ entry = None
    /\ wpc = "idle"
    /\ \E stale \in BOOLEAN :
         IF stale
         THEN /\ buildDirs = {<< >>, lambdas_dir, layers_dir, appsync_dir}
              /\ staging = (HandlerBuild("order_handler") :> OldFiles)
                           @@ (LayerTemp("adapters") :> OldFiles)
              /\ archives = (HandlerZip("order_handler") :> OldFiles)
                            @@ (LayerZip("adapters") :> OldFiles)
              /\ combined = ("schema.graphql" :> <<Line("type", "Old"), Line("close", "")>>)
         ELSE /\ buildDirs = {}
              /\ staging = << >>
              /\ archives = << >>
              /\ combined = << >>
    /\ earlier = [staging |-> staging, archives |-> archives, combined |-> combined]
    /\ unit = NoUnit
    /\ pc = "idle"
    /\ ret = "none"
    /\ failedAt = "none"
    /\ copyFailed = {}
    /\ faults = 0
    /\ builds = 0
    /\ cleanOnly = FALSE
    /\ extracted = FALSE
    /\ mpc = "none"
    /\ component = "none"
    /\ queue = << >>
    /\ failed = << >>
    /\ all_success = TRUE
    /\ attempted = << >>
    /\ steps = << >>
    /\ exitCode = -1
    /\ previous = NoBuild

\* The caller: build() for a unit, and then for the same unit again
CallLambdaBuild ==
    /\ builds < MaxBuilds
    /\ unit.kind \in {"none", "lambda"}
    /\ LambdaBuild("order_handler")
    /\ previous' = LastBuild

CallLayerBuild ==
    /\ builds < MaxBuilds
    /\ unit.kind \in {"none", "layer"}
    /\ LayerBuild("adapters")
    /\ previous' = LastBuild

CallAppSyncBuild ==
    /\ builds < MaxBuilds
    /\ unit.kind \in {"none", "schema"}
    /\ AppSyncBuild("schema")
    /\ previous' = LastBuild

NextUnit ==
    \/ CallLambdaBuild
    \/ LambdaCleanPreviousBuild
    \/ LambdaAnalyze
    \/ LambdaWalk
    \/ LambdaCopyHandlerFile
    \/ LambdaCopyDependencyFiles
    \/ LambdaCreateZip
    \/ LambdaCleanup
    \/ CallLayerBuild
    \/ LayerCreateTemp
    \/ LayerCopyTree
    \/ LayerCreateZip
    \/ LayerCleanup
    \/ CallAppSyncBuild

SpecUnit == InitUnit /\ [][NextUnit]_vars

(***************************************************************************)
(* main and BuilderManager: the configuration check, the clean-only run,   *)
(* and build_all with its phases clean, prepare, layers, functions,        *)
(* schemas and summary.                                                    *)
(***************************************************************************)
src_dir      == << >>
graphql_dir  == <<"api", "graphql">>
adapters_dir == <<"adapters">>
utils_dir    == <<"utils">>

\* Config.validate without the utils directory in its list
Validate_NoUtils ==
    \A d \in {src_dir, graphql_dir, handlers_dir, adapters_dir} : DirExists(d)

\* Config.validate: all(d.exists() for d in required)
Validate ==
    LET required == {src_dir, graphql_dir, handlers_dir, adapters_dir, utils_dir}
    IN  \A d \in required : DirExists(d)

\* sorted(): the names of the model in the order of str
Alphabetical == <<"_handler", "adapters", "extra", "order_handler", "schema",
                  "user_handler", "utils">>

Sorted(names) == SelectSeq(Alphabetical, LAMBDA s : s \in names)

\* str.startswith('_') or str.startswith('.')
StartsWithUnderscoreOrDot(name) == name \in {"_handler.py"}

\* LayerBuilder.discover
LayerDiscover ==
    (IF DirExists(adapters_dir) THEN <<"adapters">> ELSE << >>)
    \o (IF DirExists(utils_dir) THEN <<"utils">> ELSE << >>)

\* LambdaBuilder.discover
LambdaDiscover ==
    IF ~DirExists(handlers_dir)
    THEN << >>
    ELSE Sorted({s \in Stems :
                    /\ FileExists(HandlerFile(s))
                    /\ EndsWithHandlerPy(s \o ".py")
                    /\ ~StartsWithUnderscoreOrDot(s \o ".py")})

\* AppSyncBuilder.discover: the .graphql files directly in graphql_dir
AppSyncDiscover ==
    IF ~DirExists(graphql_dir)
    THEN << >>
    ELSE Sorted({s \in {"schema", "extra"} : SchemaFile(s) \in DOMAIN graphql})

\* builder.discover() of a component
Discover(c) ==
    CASE c = "layers"  -> LayerDiscover
      [] c = "lambdas" -> LambdaDiscover
      [] c = "schemas" -> AppSyncDiscover

\* An `except Exception` of main that returns 0
MainExcept_ReturnsZero ==
    /\ mpc' = "exited"
    /\ exitCode' = 0

\* An exception that leaves main through `except Exception`: return 1
MainExcept ==
    /\ mpc' = "exited"
    /\ exitCode' = 1

\* main: BuilderManager(args.project_root), which raises ValueError when the
\* configuration does not validate, and the branch on args.clean
Main ==
    /\ mpc = "main"
    /\ IF ~Validate
       THEN MainExcept
       ELSE /\ mpc' = IF cleanOnly THEN "clean_only" ELSE "clean"
            /\ UNCHANGED exitCode
    /\ UNCHANGED <<cleanOnly, extracted, component, queue, failed, all_success, attempted,
                   steps>>
    /\ UNCHANGED <<treeVars, walkVars, fsVars, unitVars>>
    /\ UNCHANGED previous

\* _clean_build_artifacts, going on at `next`: rmtree of the build directory
\* and of the extraction directory, each if it exists. An rmtree that raises
\* leaves main with 1; the first leaves the directories of the build
\* directory with or without their files, the second comes after the build
\* directory is gone.
CleanBuildArtifacts(next) ==
    /\ \E fail \in MayFail :
         IF fail /\ (<< >> \in buildDirs \/ extracted)
         THEN /\ faults' = faults + 1
              /\ MainExcept
              /\ \/ /\ << >> \in buildDirs
                    /\ UNCHANGED <<buildDirs, staging, archives, combined, extracted>>
                 \/ /\ << >> \in buildDirs
                    /\ staging' = [d \in DOMAIN staging |-> << >>]
                    /\ archives' = << >>
                    /\ combined' = << >>
                    /\ UNCHANGED <<buildDirs, extracted>>
                 \/ /\ extracted
                    /\ buildDirs' = {}
                    /\ staging' = << >>
                    /\ archives' = << >>
                    /\ combined' = << >>
                    /\ UNCHANGED extracted
         ELSE /\ buildDirs' = {}
              /\ staging' = << >>
              /\ archives' = << >>
              /\ combined' = << >>
              /\ extracted' = FALSE
              /\ mpc' = next
              /\ UNCHANGED <<faults, exitCode>>
    /\ UNCHANGED <<cleanOnly, component, queue, failed, all_success, attempted>>
    /\ UNCHANGED <<unit, pc, ret, failedAt, copyFailed, builds>>
    /\ UNCHANGED <<treeVars, walkVars>>
    /\ UNCHANGED previous

\* main with --clean: _clean_build_artifacts() and return 0
CleanOnly ==
    /\ mpc = "clean_only"
    /\ CleanBuildArtifacts("returned")
    /\ UNCHANGED steps

\* A build_all that logs step 1 and leaves the build directory as it is
BuildAllClean_SkipsClean ==
    /\ mpc = "clean"
    /\ steps' = Append(steps, 1)
    /\ mpc' = "prepare"
    /\ UNCHANGED <<cleanOnly, extracted, component, queue, failed, all_success, attempted,
                   exitCode>>
    /\ UNCHANGED <<treeVars, walkVars, fsVars, unitVars>>
    /\ UNCHANGED previous

\* build_all, step 1: CLEAN BUILD ENVIRONMENT
BuildAllClean ==
    /\ mpc = "clean"
    /\ steps' = Append(steps, 1)
    /\ CleanBuildArtifacts("prepare")

\* build_all, step 2: Config.ensure_build_dirs; a mkdir that raises leaves
\* the directories made before it. Then all_success = True.
BuildAllPrepare ==
    /\ mpc = "prepare"
    /\ steps' = Append(steps, 2)
    /\ \E fail \in MayFail :
         IF fail
         THEN /\ faults' = faults + 1
              /\ MainExcept
              /\ buildDirs' \in {buildDirs, buildDirs \cup {<< >>},
                                 buildDirs \cup {<< >>, appsync_dir},
                                 buildDirs \cup {<< >>, appsync_dir, lambdas_dir}}
              /\ UNCHANGED <<component, all_success>>
         ELSE /\ buildDirs' = buildDirs \cup {<< >>, appsync_dir, lambdas_dir, layers_dir}
              /\ mpc' = "discover"
              /\ component' = "layers"
              /\ all_success' = TRUE
              /\ UNCHANGED <<faults, exitCode>>
    /\ UNCHANGED <<cleanOnly, extracted, queue, failed, attempted>>
    /\ UNCHANGED <<staging, archives, combined>>
    /\ UNCHANGED <<unit, pc, ret, failedAt, copyFailed, builds>>
    /\ UNCHANGED <<treeVars, walkVars>>
    /\ UNCHANGED previous

\* build_all after _build_components returned `result`: all_success turns
\* False on a False, and the next component or the summary follows.
ComponentReturned(result) ==
    /\ all_success' = (all_success /\ result)
    /\ IF component = "schemas"
       THEN mpc' = "summary" /\ UNCHANGED component
       ELSE /\ mpc' = "discover"
            /\ component' = IF component = "layers" THEN "lambdas" ELSE "schemas"

\* The step number build_all hands to _build_components for a component
StepOf(c) ==
    CASE c = "layers"  -> 3
      [] c = "lambdas" -> 4
      [] c = "schemas" -> 5

\* A _build_components that returns False when discovery finds no item
BuildComponentsDiscover_EmptyFails ==
    /\ mpc = "discover"
    /\ steps' = Append(steps, StepOf(component))
    /\ LET items == Discover(component)
       IN  IF items = << >>
           THEN /\ ComponentReturned(FALSE)
                /\ UNCHANGED <<queue, failed>>
           ELSE /\ queue' = items
                /\ failed' = << >>
                /\ mpc' = "loop"
                /\ UNCHANGED <<component, all_success>>
    /\ UNCHANGED <<cleanOnly, extracted, attempted, exitCode>>
    /\ UNCHANGED <<treeVars, walkVars, fsVars, unitVars>>
    /\ UNCHANGED previous

\* _build_components: logger.step(step, ...) and items = builder.discover();
\* no item returns True
BuildComponentsDiscover ==
    /\ mpc = "discover"
    /\ steps' = Append(steps, StepOf(component))
    /\ LET items == Discover(component)
       IN  IF items = << >>
           THEN /\ ComponentReturned(TRUE)
                /\ UNCHANGED <<queue, failed>>
           ELSE /\ queue' = items
                /\ failed' = << >>
                /\ mpc' = "loop"
                /\ UNCHANGED <<component, all_success>>
    /\ UNCHANGED <<cleanOnly, extracted, attempted, exitCode>>
    /\ UNCHANGED <<treeVars, walkVars, fsVars, unitVars>>
    /\ UNCHANGED previous

\* _build_components: builder.build(item) for the next item of the loop
BuildLayer ==
    /\ mpc = "loop" /\ component = "layers"
    /\ pc = "idle" /\ queue # << >>
    /\ LayerBuild(Head(queue))
    /\ previous' = LastBuild

BuildLambda ==
    /\ mpc = "loop" /\ component = "lambdas"
    /\ pc = "idle" /\ queue # << >>
    /\ LambdaBuild(Head(queue))
    /\ previous' = LastBuild

BuildSchema ==
    /\ mpc = "loop" /\ component = "schemas"
    /\ pc = "idle" /\ queue # << >>
    /\ AppSyncBuild(Head(queue))
    /\ previous' = LastBuild

\* A loop that ends at the first item whose build failed
NextItems_StopAtFailure(items, built) == IF built THEN Tail(items) ELSE << >>

\* `for item in items`: the items after the one just built, whatever its
\* build returned
NextItems(items, built) == Tail(items)

\* _build_components: build(item) returned; a False puts the item on the
\* failed list. (An exception out of build would leave main with 1.)
ItemReturned ==
    /\ mpc = "loop"
    /\ pc = "returned"
    /\ pc' = "idle"
    /\ attempted' = Append(attempted,
                       [component |-> component, item |-> Head(queue), ret |-> ret])
    /\ IF ret = "raised"
       THEN /\ MainExcept
            /\ UNCHANGED <<queue, failed>>
       ELSE /\ failed' = IF ret = "success" THEN failed ELSE Append(failed, Head(queue))
            /\ queue' = NextItems(queue, ret = "success")
            /\ UNCHANGED <<mpc, exitCode>>
    /\ UNCHANGED <<cleanOnly, extracted, component, all_success, steps>>
    /\ UNCHANGED <<unit, ret, failedAt, copyFailed, faults, builds>>
    /\ UNCHANGED <<treeVars, walkVars, fsVars>>
    /\ UNCHANGED previous

\* _build_components: the loop is over; False if an item failed
BuildComponentsReturn ==
    /\ mpc = "loop"
    /\ pc = "idle"
    /\ queue = << >>
    /\ ComponentReturned(failed = << >>)
    /\ UNCHANGED <<cleanOnly, extracted, queue, failed, attempted, steps, exitCode>>
    /\ UNCHANGED <<treeVars, walkVars, fsVars, unitVars>>
    /\ UNCHANGED previous

\* build_all from `if all_success`: step 6, BUILD SUMMARY, and
\* _print_build_summary if all_success, the error line if not; then
\* `return all_success`
BuildAllReturn ==
    /\ mpc = "summary"
    /\ mpc' = "returned"
    /\ steps' = IF all_success THEN Append(steps, 6) ELSE steps
    /\ UNCHANGED <<cleanOnly, extracted, component, queue, failed, all_success,
                   attempted, exitCode>>
    /\ UNCHANGED <<treeVars, walkVars, fsVars, unitVars>>
    /\ UNCHANGED previous

\* main: `return 0` after the clean, `return 0 if success else 1` after
\* build_all
MainReturn ==
    /\ mpc = "returned"
    /\ mpc' = "exited"
    /\ exitCode' = IF cleanOnly \/ all_success THEN 0 ELSE 1
    /\ UNCHANGED <<cleanOnly, extracted, component, queue, failed, all_success, attempted,
                   steps>>
    /\ UNCHANGED <<treeVars, walkVars, fsVars, unitVars>>
    /\ UNCHANGED previous

(***************************************************************************)
(* The projects main runs on: the example tree, the tree whose handler     *)
(* imports services.mail, the tree with no handler file, and the tree with *)
(* a file _handler.py; any one of the required directories may be missing, *)
(* with all that is under it.                                              *)
(***************************************************************************)
\* A file under a folder that is neither in the allow-list nor a layer
ServicesMail == <<"services", "mail.py">>

FromServicesMail == ImportStmt("from", 0, <<"services", "mail">>)

\* order_handler imports domain.order and services.mail
ServicesTree ==
    TreeOf(UnitFiles \cup {ServicesMail},
           {<<OrderHandler, FromDomainOrder>>, <<OrderHandler, FromServicesMail>>}, {})

UnderscoreHandler == HandlerFile("_handler")

MainTrees ==
    {ExampleTree, ServicesTree,
     TreeOf(UnitFiles \ {OrderHandler, UserHandler}, {}, {}),
     TreeOf((UnitFiles \ {UserHandler}) \cup {UnderscoreHandler},
            {<<OrderHandler, FromDomainOrder>>}, {})}

\* schema.graphql alone; or with extra.graphql, which imports a file that
\* does not exist, and types/order.graphql, which schema.graphql imports
MainSchemaFolders ==
    {<< >>,
     ("schema.graphql" :> SchemaDoc(<< >>)),
     ("extra.graphql" :> SchemaDoc(<<ImportPath(FALSE, "missing.graphql")>>))
        @@ ("schema.graphql" :> SchemaDoc(<<ImportPath(TRUE, "types/order.graphql")>>))
        @@ ("types/order.graphql" :> TypesDoc(FALSE, "none"))}

\* Whether the path p is the directory d or under it
Under(d, p) == Len(p) >= Len(d) /\ SubSeq(p, 1, Len(d)) = d

MissingDirs == {{}, {src_dir}, {graphql_dir}, {handlers_dir}, {adapters_dir}, {utils_dir}}

Init ==
    /\ \E tree \in MainTrees, folder \in MainSchemaFolders, missing \in MissingDirs :
         LET Gone(p) == \E d \in missing : Under(d, p)
             files   == {f \in DOMAIN tree : ~Gone(f)}
         IN  /\ src = [f \in files |-> tree[f]]
             /\ graphql = IF Gone(graphql_dir) THEN << >> ELSE folder
             /\ srcDirs = {d \in DirsOf(DOMAIN tree)
                                   \cup {<<"api">>, graphql_dir, handlers_dir,
                                         adapters_dir, utils_dir} : ~Gone(d)}
    /\ visited = {}
    /\ reads = << >>
    /\ dependencies = {}
    /\ stack = << >>
    /\ entry = None
    /\ wpc = "idle"
    /\ \E stale \in BOOLEAN :
         /\ extracted = stale
         /\ IF stale
            THEN /\ buildDirs = {<< >>, lambdas_dir, layers_dir, appsync_dir}
                 /\ staging = (HandlerBuild("order_handler") :> OldFiles)
                 /\ archives = (HandlerZip("old_handler") :> OldFiles)
                               @@ (LayerZip("adapters") :> OldFiles)
                 /\ combined = ("old.graphql" :> <<Line("type", "Old"), Line("close", "")>>)
            ELSE /\ buildDirs = {}
                 /\ staging = << >>
                 /\ archives = << >>
                 /\ combined = << >>
    /\ earlier = [staging |-> staging, archives |-> archives, combined |-> combined]
    /\ unit = NoUnit
    /\ pc = "idle"
    /\ ret = "none"
    /\ failedAt = "none"
    /\ copyFailed = {}
    /\ faults = 0
    /\ builds = 0
    /\ cleanOnly \in BOOLEAN
    /\ mpc = "main"
    /\ component = "none"
    /\ queue = << >>
    /\ failed = << >>
    /\ all_success = TRUE
    /\ attempted = << >>
    /\ steps = << >>
    /\ exitCode = -1
    /\ previous = NoBuild

Next ==
    \/ Main
    \/ CleanOnly
    \/ BuildAllClean
    \/ BuildAllPrepare
    \/ BuildComponentsDiscover
    \/ BuildLayer
    \/ LayerCreateTemp
    \/ LayerCopyTree
    \/ LayerCreateZip
    \/ LayerCleanup
    \/ BuildLambda
    \/ LambdaCleanPreviousBuild
    \/ LambdaAnalyze
    \/ LambdaWalk
    \/ LambdaCopyHandlerFile
    \/ LambdaCopyDependencyFiles
    \/ LambdaCreateZip
    \/ LambdaCleanup
    \/ BuildSchema
    \/ ItemReturned
    \/ BuildComponentsReturn
    \/ BuildAllReturn
    \/ MainReturn

Spec == Init /\ [][Next]_vars

(***************************************************************************)
(* The import relation and its transitive closure.                         *)
(***************************************************************************)
\* The files the import statements of f resolve to
ImportedBy(f) ==
    IF FileExists(f) /\ src[f].parses
    THEN {ResolveImport(ModuleArgument(s), f) :
             s \in {t \in src[f].imports : HasModuleArgument(t)}} \ {None}
    ELSE {}

RECURSIVE Reachable(_)
\* The least set that holds S and the files imported by its files
Reachable(S) ==
    LET T == S \cup UNION {ImportedBy(g) : g \in S}
    IN  IF T = S THEN S ELSE Reachable(T)

\* The files reachable from f through one import or more
TransitiveClosure(f) == Reachable(ImportedBy(f))

\* Some file of the tree imports itself, directly or through others
Cyclic == \E f \in DOMAIN src : f \in TransitiveClosure(f)

\* The walk's measure: what is left to do of the loops in progress and of
\* the files not visited yet.
Rank ==
    LET Left[i \in 0..Len(stack)] ==
            IF i = 0 THEN 0 ELSE Left[i - 1] + Cardinality(stack[i].todo) + 1
        unvisited == DOMAIN src \ visited
        Todo[S \in SUBSET unvisited] ==
            IF S = {} THEN 0
            ELSE LET f == CHOOSE g \in S : TRUE
                 IN  Todo[S \ {f}] + Cardinality(src[f].imports) + 2
    IN  Left[Len(stack)] + Todo[unvisited]

\* C1: on an acyclic import graph the walk's result is the transitive
\* closure of the resolvable imports from the entry file: every file
\* reachable through a chain of resolving imports, and nothing else.
C1_AcyclicClosure ==
    (wpc = "done" /\ ~Cyclic) => dependencies = TransitiveClosure(entry)

\* C1's case: a finished walk of an acyclic tree whose closure holds a file
\* the entry does not import itself.
C1_Witness ==
    /\ wpc = "done"
    /\ ~Cyclic
    /\ dependencies \ ImportedBy(entry) # {}

\* C2: on a cyclic import graph the walk terminates (every step of the walk
\* lowers its measure) and its result is still the transitive closure.
C2_CyclicTerminates ==
    /\ [][wpc = "walking" => Rank' < Rank]_vars
    /\ []((wpc = "done" /\ Cyclic) => dependencies = TransitiveClosure(entry))

\* C2's case: a finished walk of a tree where the entry file is on a cycle,
\* and so in its own closure.
C2_Witness ==
    /\ wpc = "done"
    /\ Cyclic
    /\ entry \in dependencies

(***************************************************************************)
(* The unit builds: what a finished build() leaves.                        *)
(***************************************************************************)
\* The top-level folders whose files go into function archives
AllowList == {"application", "domain", "orm"}

\* A build() of a handler has returned
LambdaReturned == pc = "returned" /\ unit.kind = "lambda"

\* The archive of the unit of the last build()
UnitZip == IF unit.kind = "lambda" THEN HandlerZip(unit.name) ELSE LayerZip(unit.name)

\* The staging directory of the unit of the last build()
UnitStaging == IF unit.kind = "lambda" THEN HandlerBuild(unit.name) ELSE LayerTemp(unit.name)

\* The source file f has an entry in the archive a of the handler file h:
\* at its path relative to src, or, the handler file, at the root
Included(f, h, a) == f \in DOMAIN a \/ (f = h /\ <<Name(h)>> \in DOMAIN a)

\* C3: after a successful build(handler) the archive holds the entry file
\* at its root under its own name, and every file of the closure under
\* application, domain or orm at its path relative to src.
C3_ArchiveHoldsClosure ==
    (LambdaReturned /\ ret = "success") =>
        LET h == HandlerFile(unit.name)
            a == archives[HandlerZip(unit.name)]
        IN  /\ <<Name(h)>> \in DOMAIN a
            /\ a[<<Name(h)>>] = src[h]
            /\ \A f \in TransitiveClosure(h) :
                  f[1] \in AllowList => (f \in DOMAIN a /\ a[f] = src[f])

AfterCreate == {"copy_handler", "copytree", "zip_unlink", "zip_write", "cleanup_after"}

\* C5: when a build() that created its staging directory returns, with
\* success or with failure, the staging directory does not exist.
C5_NoStagingSurvives ==
    (pc = "returned" /\ unit.kind \in {"lambda", "layer"}
        /\ (ret = "success" \/ failedAt \in AfterCreate))
    => UnitStaging \notin DOMAIN staging

\* No build() lets an exception out: whatever step of build() raised, the
\* build has returned, and returned failure.
NoExceptionPropagates ==
    /\ ret # "raised"
    /\ failedAt # "none" => (pc = "returned" /\ ret = "failure")

\* C7: every error inside a build(), at any step, becomes its False: a
\* build() that has returned after some step of it raised, the copy of a
\* dependency file included, returned failure, and none let the exception
\* out.
C7_EveryErrorBecomesFailure ==
    /\ ret # "raised"
    /\ (pc = "returned" /\ (failedAt # "none" \/ copyFailed # {})) => ret = "failure"

\* C8: a build() in which the copy of the entry file or of a dependency
\* file raised returns failure.
C8_CopyErrorFailsUnit ==
    (LambdaReturned /\ (failedAt = "copy_handler" \/ copyFailed # {}))
    => ret = "failure"

\* C9: a build() whose entry file (layer folder) does not exist returns
\* failure and leaves the build directory as it was; and no step of a
\* handler's build() before _create_zip changes an archive.
C9_NotFoundAndBeforeWrite ==
    [][ /\ ( /\ builds' = builds + 1
             /\ \/ unit'.kind = "lambda" /\ ~FileExists(HandlerFile(unit'.name))
                \/ unit'.kind = "layer" /\ ~DirExists(<<unit'.name>>) )
           => ( /\ pc' = "returned"
                /\ ret' = "failure"
                /\ staging' = staging
                /\ buildDirs' = buildDirs
                /\ archives' = archives )
        /\ (unit'.kind = "lambda" /\ pc # "zip") => archives' = archives
      ]_vars

\* C9's cases: a build() of a missing handler that returned failure beside
\* the staging directory an earlier run left; a build() that failed before
\* _create_zip with the earlier archive still there.
C9_Witness ==
    /\ LambdaReturned
    /\ ret = "failure"
    /\ HandlerZip(unit.name) \in DOMAIN archives
    /\ archives[HandlerZip(unit.name)] = OldFiles
    /\ \/ ~FileExists(HandlerFile(unit.name)) /\ HandlerBuild(unit.name) \in DOMAIN staging
       \/ failedAt = "copy_handler"


(***************************************************************************)
(* Claims about main and build_all.                                        *)
(***************************************************************************)
\* The units build_all has to attempt, in the order of the components
DiscoveredUnits ==
    [i \in 1..Len(LayerDiscover) |-> <<"layers", LayerDiscover[i]>>]
    \o [i \in 1..Len(LambdaDiscover) |-> <<"lambdas", LambdaDiscover[i]>>]
    \o [i \in 1..Len(AppSyncDiscover) |-> <<"schemas", AppSyncDiscover[i]>>]

\* The units whose build was called, in the order of the calls
AttemptedUnits ==
    [i \in 1..Len(attempted) |-> <<attempted[i].component, attempted[i].item>>]

\* C6: when build_all returns, every discovered unit of every component has
\* been attempted, in the order layers, functions, schemas, whatever the
\* builds before it returned; and build_all returns True if and only if no
\* attempted unit failed.
C6_FailureIsolation ==
    (mpc = "returned" /\ ~cleanOnly) =>
        /\ AttemptedUnits = DiscoveredUnits
        /\ all_success <=> \A i \in 1..Len(attempted) : attempted[i].ret = "success"

\* C6 witness: build_all returned False after a unit failed, a later unit of
\* the same component and a unit of a later component were both attempted.
C6_Witness ==
    /\ mpc = "returned" /\ ~cleanOnly /\ ~all_success
    /\ \E i, j, k \in 1..Len(attempted) :
         /\ i < j /\ i < k
         /\ attempted[i].ret # "success"
         /\ attempted[j].component = attempted[i].component
         /\ attempted[k].component # attempted[i].component

\* One of the required directories is missing
ConfigurationError ==
    \E d \in {<< >>, <<"api", "graphql">>, <<"handlers">>, <<"adapters">>, <<"utils">>} :
        d \notin srcDirs

\* C10: with a required directory missing, main goes from its start straight
\* to its exit with 1: no build() is called, and no step changes the build
\* directory or the extraction directory.
C10_ConfigurationErrorAborts ==
    /\ [](ConfigurationError =>
            /\ builds = 0
            /\ mpc \in {"main", "exited"}
            /\ mpc = "exited" => exitCode = 1)
    /\ [][ConfigurationError => UNCHANGED <<fsVars, extracted>>]_vars

\* C10 witness: main has exited on a project without its utils directory,
\* and the build directory of an earlier run is still there.
C10_Witness ==
    /\ <<"utils">> \notin srcDirs /\ << >> \in srcDirs
    /\ mpc = "exited"
    /\ << >> \in buildDirs
    /\ archives # << >>

\* C11: a run of main without --clean ends with 0 or 1, and with 0 exactly
\* when build_all returned and every build() it called returned success; the
\* configuration error and an error of the clean or prepare phase, which
\* end main from elsewhere, end it with 1.
C11_ExitCode ==
    [][(mpc' = "exited" /\ mpc # "exited" /\ ~cleanOnly) =>
          /\ exitCode' \in {0, 1}
          /\ exitCode' = 0 <=>
                /\ mpc = "returned"
                /\ \A i \in 1..Len(attempted) : attempted[i].ret = "success"
      ]_vars

\* C11 witnesses: main has ended with 1 after an error of the clean or
\* prepare phase on a valid project, before any unit was built.
C11_Witness ==
    /\ mpc = "exited" /\ ~cleanOnly
    /\ ~ConfigurationError
    /\ exitCode = 1
    /\ builds = 0

\* C12: a run of main with --clean in which no I/O operation fails, on any
\* project, ends with 0 and with neither the build directory nor the
\* extraction directory, hence with no archive and no build subdirectory.
C12_CleanOnly ==
    (mpc = "exited" /\ cleanOnly /\ faults = 0) =>
        /\ exitCode = 0
        /\ buildDirs = {}
        /\ ~extracted
        /\ archives = << >>

\* C13: after a successful build(layer) every entry of the layer archive is
\* under python/<layer>/, and every file of the layer's source folder has
\* its entry there, with its content.
C13_LayerArchivePrefix ==
    (pc = "returned" /\ unit.kind = "layer" /\ ret = "success") =>
        LET a == archives[LayerZip(unit.name)]
        IN  /\ \A e \in DOMAIN a : Len(e) > 2 /\ e[1] = "python" /\ e[2] = unit.name
            /\ \A f \in DOMAIN src :
                  f[1] = unit.name =>
                     (<<"python">> \o f \in DOMAIN a /\ a[<<"python">> \o f] = src[f])

\* C13 witness: the layer utils built, with python/utils/log.py in its
\* archive.
C13_Witness ==
    /\ pc = "returned" /\ unit = [kind |-> "layer", name |-> "utils"] /\ ret = "success"
    /\ <<"python", "utils", "log.py">> \in DOMAIN archives[LayerZip("utils")]

\* The last two build() calls were for the same handler and both returned
\* success
BuiltTwice ==
    /\ LambdaReturned /\ ret = "success"
    /\ previous.unit = unit /\ previous.ret = "success"

\* C14: two successive successful build() calls for the same handler on
\* unchanged sources leave the same archive: the same entry names, and the
\* same content for each.
C14_Idempotent ==
    BuiltTwice => archives[HandlerZip(unit.name)] = previous.archive

\* Two successive successful builds in neither of which a copy raised leave
\* the same archive, whatever the build directory held before the first.
IdempotentWithoutCopyError ==
    (BuiltTwice /\ copyFailed = {} /\ previous.copyFailed = {}) =>
        archives[HandlerZip(unit.name)] = previous.archive

(***************************************************************************)
(* Claims about the schema build.                                          *)
(***************************************************************************)
\* A build() of a schema has returned
SchemaReturned == pc = "returned" /\ unit.kind = "schema"

\* The import directives of the file `name` whose file does not exist
MissingImports(name) ==
    {i \in 1..Len(graphql[name]) :
        /\ graphql[name][i].kind = "import"
        /\ graphql[name][i].arg.name \notin DOMAIN graphql}

\* C15: an import directive whose file does not exist is not fatal: no
\* build() of a schema fails for it, and a top-level schema that is valid
\* but for such directives is built (the output directory being there and
\* no I/O operation failing).
C15_MissingImportNonFatal ==
    SchemaReturned =>
        /\ failedAt # "import"
        /\ (/\ SchemaFile(unit.name) \in DOMAIN graphql
            /\ MissingImports(SchemaFile(unit.name)) # {}
            /\ \A i \in 1..Len(graphql[SchemaFile(unit.name)]) :
                  graphql[SchemaFile(unit.name)][i].kind = "import" =>
                     i \in MissingImports(SchemaFile(unit.name))
            /\ appsync_dir \in buildDirs
            /\ faults = 0) => ret = "success"

\* How many lines of a text are the line l
Occurrences(text, l) == Cardinality({i \in 1..Len(text) : text[i] = l})

\* The lines of the schema files that are not import directives; the files
\* of a folder share none but the declaration of Query and the `}`
OwnLines(name) ==
    {graphql[name][i] : i \in {j \in 1..Len(graphql[name]) :
                                  graphql[name][j].kind \in {"field"}}}

\* C16: _process_schema, started on any file of any folder (with cycles,
\* a self-import, a diamond, a file imported twice), comes to an end, and
\* unless an import was missing its output holds the content of every file,
\* the file it started on included, at most once.
C16_EachFileAtMostOnce ==
    \A top \in DOMAIN graphql :
        LET result == ProcessSchema(top, {})
        IN  ~result.raised =>
              \A name \in DOMAIN graphql : \A l \in OwnLines(name) :
                  /\ Occurrences(result.out, l) <= 1
                  /\ name = top => Occurrences(result.out, l) = 1

\* C16 witnesses: the schema of the diamond folder is built, the file both
\* branches import is in the combined schema once.
C16_Witness ==
    /\ SchemaReturned /\ ret = "success"
    /\ graphql = DiamondFolder
    /\ Occurrences(combined["schema.graphql"], Line("field", "amount")) = 1

(***************************************************************************)
(* The schema loader of the server: compile_graphql_schema, which inlines  *)
(* the imports of a schema file by textual replacement. A text is the      *)
(* sequence of its lines, every file ending with a newline.                *)
(***************************************************************************)
\* base_path.parent, for the files of the model: the folder itself or its
\* subfolder types
ParentDir(base_path) ==
    IF \E n \in {"order.graphql", "b.graphql"} : base_path = "types/" \o n
    THEN "types/" ELSE ""

\* base_path.parent / import_path, a leading ./ dropped
ImportFile(base_path, import_path) == ParentDir(base_path) \o import_path.name

\* re.findall(import_pattern, content): the paths of the import statements
\* of a text, in their order
FindImports(content) ==
    LET at == SelectSeq([i \in 1..Len(content) |-> i],
                        LAMBDA i : content[i].kind = "import")
    IN  [k \in 1..Len(at) |-> content[at[k]].arg]

RECURSIVE ReplaceAll(_, _, _)
\* content.replace(import_statement, imported_content): every line that is
\* the statement becomes the lines of imported_content, and the line end of
\* the statement a blank line after them
ReplaceAll(content, import_path, imported_content) ==
    IF content = << >>
    THEN << >>
    ELSE (IF Head(content) = ImportLine(import_path)
          THEN imported_content \o <<BlankLine>>
          ELSE <<Head(content)>>)
         \o ReplaceAll(Tail(content), import_path, imported_content)

\* A loader that takes the file it starts on for processed
StartProcessed_WithBase(base_path) == {base_path}

\* `processed_files = set()` of the first call of resolve_imports
StartProcessed(base_path) == {}

RECURSIVE ResolveImports(_, _, _)
RECURSIVE ResolveImportsLoop(_, _, _, _, _)
\* resolve_imports(content, base_path, processed_files): the text with its
\* imports inlined, and the files processed
ResolveImports(content, base_path, processed_files) ==
    ResolveImportsLoop(FindImports(content), 1, content, base_path, processed_files)

\* The loop of resolve_imports over the import paths from the k-th on
ResolveImportsLoop(imports, k, content, base_path, processed_files) ==
    IF k > Len(imports)
    THEN [content |-> content, processed |-> processed_files]
    ELSE LET import_path == imports[k]
             import_file == ImportFile(base_path, import_path)
         IN  IF import_file \in processed_files
             THEN ResolveImportsLoop(imports, k + 1, content, base_path, processed_files)
             ELSE IF import_file \in DOMAIN graphql
             THEN LET imported == ResolveImports(graphql[import_file], import_file,
                                                 processed_files \cup {import_file})
                  IN  ResolveImportsLoop(imports, k + 1,
                          ReplaceAll(content, import_path, imported.content),
                          base_path, imported.processed)
             ELSE ResolveImportsLoop(imports, k + 1,
                      ReplaceAll(content, import_path, << >>),
                      base_path, processed_files \cup {import_file})

\* `# Clean up any remaining import statements and comments`: the import
\* statements go with their line ends, a comment leaves its line end
CleanUp(compiled_schema) ==
    LET kept == SelectSeq(compiled_schema, LAMBDA l : l.kind # "import")
    IN  [i \in 1..Len(kept) |-> IF kept[i].kind = "comment" THEN BlankLine ELSE kept[i]]

\* compile_graphql_schema(base_file_path)
CompileGraphqlSchema(base_file_path) ==
    CleanUp(ResolveImports(graphql[base_file_path], base_file_path,
                           StartProcessed(base_file_path)).content)

\* GraphQLSchemaLoader.load_schema(schema_name): FileNotFoundError when the
\* schema file does not exist, else the compiled schema
LoadSchema(schema_name) ==
    /\ pc = "idle"
    /\ unit' = [kind |-> "loader", name |-> schema_name]
    /\ pc' = "returned"
    /\ IF SchemaFile(schema_name) \in DOMAIN graphql
       THEN /\ ret' = "success"
            /\ combined' = (SchemaFile(schema_name) :>
                               CompileGraphqlSchema(SchemaFile(schema_name)))
       ELSE /\ ret' = "raised"
            /\ UNCHANGED combined
    /\ UNCHANGED <<buildDirs, staging, archives, failedAt, copyFailed, faults, builds>>
    /\ UNCHANGED <<treeVars, walkVars, orchVars, previous>>

\* The folders the loader runs on: a.graphql with up to two imports, of
\* b.graphql (with and without ./), of itself, of types/b.graphql and of a
\* file that does not exist; b.graphql, which may import a.graphql back or
\* itself; types/b.graphql, whose import of b.graphql is an import of itself.
LoaderPaths ==
    {ImportPath(FALSE, "b.graphql"), ImportPath(TRUE, "b.graphql"),
     ImportPath(FALSE, "a.graphql"), ImportPath(FALSE, "missing.graphql"),
     ImportPath(FALSE, "types/b.graphql")}

LoaderFolders ==
    {("a.graphql" :> <<Line("comment", "note")>> \o TypeDoc(importsA, "Query", "a"))
     @@ ("b.graphql" :> TypeDoc(importsB, "B", "b"))
     @@ ("types/b.graphql" :> TypeDoc(importsT, "T", "t")) :
        importsA \in {<< >>} \cup {<<p>> : p \in LoaderPaths}
                             \cup {<<p, q>> : p, q \in LoaderPaths},
        importsB \in {<< >>, <<ImportPath(FALSE, "a.graphql")>>,
                      <<ImportPath(TRUE, "a.graphql")>>, <<ImportPath(FALSE, "b.graphql")>>},
        importsT \in {<< >>, <<ImportPath(FALSE, "b.graphql")>>}}

InitLoader ==
    /\ graphql \in LoaderFolders
    /\ src = << >>
    /\ srcDirs = {<< >>, <<"api">>, graphql_dir}
    /\ visited = {}
    /\ reads = << >>
    /\ dependencies = {}
    /\ stack = << >>
    /\ entry = None
    /\ wpc = "idle"
    /\ buildDirs = {}
    /\ staging = << >>
    /\ archives = << >>
    /\ combined = << >>
    /\ earlier = [staging |-> staging, archives |-> archives, combined |-> combined]
    /\ unit = NoUnit
    /\ pc = "idle"
    /\ ret = "none"
    /\ failedAt = "none"
    /\ copyFailed = {}
    /\ faults = 0
    /\ builds = 0
    /\ cleanOnly = FALSE
    /\ extracted = FALSE
    /\ mpc = "none"
    /\ component = "none"
    /\ queue = << >>
    /\ failed = << >>
    /\ all_success = TRUE
    /\ attempted = << >>
    /\ steps = << >>
    /\ exitCode = -1
    /\ previous = NoBuild

\* The server loads one schema: a.graphql, b.graphql, or c.graphql, which
\* does not exist
NextLoader == \E schema_name \in {"a", "b", "c"} : LoadSchema(schema_name)

SpecLoader == InitLoader /\ [][NextLoader]_vars

\* load_schema has returned the compiled schema of `name`
Loaded(name) ==
    pc = "returned" /\ unit = [kind |-> "loader", name |-> name] /\ ret = "success"

\* The files the import statements of the file `name` of the folder name
ImportNames(name) ==
    [i \in 1..Len(FindImports(graphql[name])) |-> FindImports(graphql[name])[i].name]

\* C17: a.graphql imports b.graphql, which imports a.graphql back; the
\* compiled schema of a.graphql (the compilation having ended) holds the
\* content of b.graphql at most once and the content of a.graphql at most
\* once.
C17_CycleOfTwo ==
    (/\ Loaded("a")
     /\ ImportNames("a.graphql") = <<"b.graphql">>
     /\ ImportNames("b.graphql") = <<"a.graphql">>) =>
        /\ Occurrences(combined["a.graphql"], Line("field", "b")) <= 1
        /\ Occurrences(combined["a.graphql"], Line("field", "a")) <= 1

\* In the cycle of two the compilation ends with the content of b.graphql
\* once and the content of a.graphql twice: at its own place, and inside
\* the content of b.graphql, where b.graphql imports it.
CycleOfTwoAsCompiled ==
    (/\ Loaded("a")
     /\ ImportNames("a.graphql") = <<"b.graphql">>
     /\ ImportNames("b.graphql") = <<"a.graphql">>) =>
        /\ Occurrences(combined["a.graphql"], Line("field", "b")) = 1
        /\ Occurrences(combined["a.graphql"], Line("field", "a")) = 2

\* The combined text is empty or blank, or declares a type name twice, or
\* has not as many `{` as `}`
Rejected(text) ==
    \/ \A i \in 1..Len(text) : text[i].kind = "blank"
    \/ \E i, j \in 1..Len(text) :
          i # j /\ text[i].kind = "type" /\ text[j].kind = "type" /\ text[i].arg = text[j].arg
    \/ Cardinality({i \in 1..Len(text) : text[i].kind = "type"})
          # Cardinality({i \in 1..Len(text) : text[i].kind = "close"})

\* C18: a build() of an existing schema in which nothing raised returns
\* failure exactly when the combined text is empty or blank, declares a
\* type name twice or has unbalanced braces (a text without Query and
\* Mutation is built); and a build that the validation fails leaves the
\* output folder as it was.
C18_ValidationRejects ==
    [][(/\ builds' = builds + 1
        /\ unit'.kind = "schema"
        /\ SchemaFile(unit'.name) \in DOMAIN graphql
        /\ failedAt' = "none") =>
           LET text == ProcessSchema(SchemaFile(unit'.name), {}).out
           IN  /\ ret' = "failure" <=> Rejected(text)
               /\ ret' = "failure" => combined' = combined
      ]_vars

\* C18 witnesses: a build failed by the validation, of a combined text
\* that declares Query twice, beside the combined schema of an earlier run.
C18_Witness ==
    /\ SchemaReturned /\ ret = "failure" /\ failedAt = "none"
    /\ SchemaFile(unit.name) \in DOMAIN graphql
    /\ Cardinality({i \in 1..Len(ProcessSchema(SchemaFile(unit.name), {}).out) :
                       ProcessSchema(SchemaFile(unit.name), {}).out[i] = Line("type", "Query")}) = 2
    /\ "schema.graphql" \in DOMAIN combined

\* C19: the combined schema a successful build() writes holds no import
\* directive and no line that is only a comment.
C19_NoImportNoComment ==
    (SchemaReturned /\ ret = "success") =>
        \A i \in 1..Len(combined[SchemaFile(unit.name)]) :
            combined[SchemaFile(unit.name)][i].kind \notin {"import", "comment"}

\* The combined schema a successful build() writes holds no import
\* directive.
NoImportDirectiveLeft ==
    (SchemaReturned /\ ret = "success") =>
        \A i \in 1..Len(combined[SchemaFile(unit.name)]) :
            combined[SchemaFile(unit.name)][i].kind # "import"

(***************************************************************************)
(* Claims about what the archives of a run hold together.                  *)
(***************************************************************************)
\* The file f of the sources has an entry in some archive: at its path
\* relative to src in a function archive, or under python/ in a layer
\* archive
InSomeArchive(f) ==
    \E z \in DOMAIN archives :
        f \in DOMAIN archives[z] \/ <<"python">> \o f \in DOMAIN archives[z]

\* The files of the closure of a discovered handler that are under neither
\* an allow-listed folder nor a layer folder, and are no handler files
Uncovered ==
    {f \in DOMAIN src :
        /\ \E i \in 1..Len(LambdaDiscover) :
              f \in TransitiveClosure(HandlerFile(LambdaDiscover[i]))
        /\ f[1] \notin AllowList \cup {"adapters", "utils"}
        /\ ~EndsWithHandlerPy(Name(f))}

\* C20: when build_all returns, a closure file under a folder that is
\* neither allow-listed nor a layer is in no archive, whatever build_all
\* returns: no step of the run looks for it.
C20_CoverageGap ==
    (mpc = "returned" /\ ~cleanOnly) => \A f \in Uncovered : ~InSomeArchive(f)

\* C20 witnesses: build_all has returned True, every unit built, and
\* services/mail.py, which order_handler imports, is in no archive.
C20_Witness ==
    /\ mpc = "returned" /\ ~cleanOnly /\ all_success
    /\ \A i \in 1..Len(attempted) : attempted[i].ret = "success"
    /\ HandlerZip("order_handler") \in DOMAIN archives
    /\ ServicesMail \in Uncovered
    /\ ~InSomeArchive(ServicesMail)

(***************************************************************************)
(* Claims about the phases of build_all.                                   *)
(***************************************************************************)
\* The phases as far as they go: the steps are logged in the order 1, 2,
\* ...; the builds called are the discovered units in their order, so that
\* no unit of a component is built before every unit of the components
\* before it; a build runs in the phase of its component; and a run that
\* returns logged the phases 1 to 5, and the summary if all_success.
PhaseOrder ==
    /\ Len(steps) <= 6
    /\ \A i \in 1..Len(steps) : steps[i] = i
    /\ Len(attempted) <= Len(DiscoveredUnits)
    /\ \A i \in 1..Len(attempted) : AttemptedUnits[i] = DiscoveredUnits[i]
    /\ (mpc = "loop" /\ pc # "idle") =>
          /\ steps[Len(steps)] = StepOf(component)
          /\ unit.kind \o "s" = component
          /\ DiscoveredUnits[Len(attempted) + 1] = <<component, unit.name>>
    /\ (mpc = "returned" /\ ~cleanOnly) =>
          steps = IF all_success THEN <<1, 2, 3, 4, 5, 6>> ELSE <<1, 2, 3, 4, 5>>

\* C21: the phases of build_all come in the order clean, prepare, layers,
\* functions, schemas, summary, each after the one before it has finished
\* and each unit after every unit of the components before it, and every
\* run of build_all that returns has ended with the summary phase.
C21_PhaseOrder ==
    /\ PhaseOrder
    /\ (mpc = "returned" /\ ~cleanOnly) => steps = <<1, 2, 3, 4, 5, 6>>

(***************************************************************************)
(* Claims about the walk and the resolver.                                 *)
(***************************************************************************)
\* The read files that import f
Importers(f) == {g \in DOMAIN reads : f \in ImportedBy(g)}

\* C22: in one walk no file is read and parsed more than once: a file is
\* in the visited set when it is read and while its imports are processed,
\* the visited set only grows, and a call on a visited path neither reads
\* the file nor starts a loop over its imports.
C22_ReadAtMostOnce ==
    /\ [](/\ \A f \in DOMAIN reads : reads[f] = 1
          /\ DOMAIN reads \subseteq visited
          /\ \A i \in 1..Len(stack) : stack[i].file \in visited)
    /\ [][wpc = "walking" =>
            /\ visited \subseteq visited'
            /\ \A f \in visited :
                 /\ f \in DOMAIN reads' => f \in DOMAIN reads
                 /\ Len(stack') > Len(stack) => stack'[Len(stack')].file # f
         ]_vars

\* C22's case: a finished walk of a cyclic tree in which the entry file was
\* called again from a file of its closure, and another file was called from
\* two files that import it.
C22_Witness ==
    /\ wpc = "done"
    /\ Cyclic
    /\ entry \in dependencies
    /\ \E f \in dependencies \ {entry} : Cardinality(Importers(f)) >= 2

\* The relative import statements of a file: `from .mod import x`,
\* `from ..pkg import y`
RelativeImports(f) == {s \in src[f].imports : s.kind = "from" /\ s.level > 0 /\ Len(s.module) > 0}

\* The file relative resolution finds for a statement of f: one directory up
\* per dot beyond the first from the parent of f, then <name>.py or
\* <name>/__init__.py
RelativeTarget(s, f) == ResolveRelativeImport(ModuleName(s.level, s.module), f)

\* C23: when the walk is over, every relative import of a file it read and
\* parsed that relative resolution resolves has its file in the closure.
C23_RelativeResolution ==
    wpc = "done" =>
        \A f \in {g \in DOMAIN reads : src[g].parses} :
            \A s \in RelativeImports(f) :
                RelativeTarget(s, f) # None => RelativeTarget(s, f) \in dependencies

\* The absolute import statements of a file that name a first-party module
AbsoluteImports(f) ==
    {s \in src[f].imports : s.level = 0 /\ Len(s.module) > 0 /\ s.module[1] \notin standard_libs}

\* The candidates of a reference a.b.c in the order joined path
\* src/a/b/c.py, src/a/c.py, package form src/a/b/c/__init__.py
JoinedFirst(parts) ==
    LET n == Len(parts)
    IN  << Append(SubSeq(parts, 1, n - 1), parts[n] \o ".py"),
           <<parts[1], parts[n] \o ".py">>,
           Append(parts, "__init__.py") >>

\* C24: when the walk is over, every dotted absolute reference of a file it
\* read has resolved to the first existing file among src/a/b/c.py,
\* src/a/c.py and src/a/b/c/__init__.py, in this order, which is in the
\* closure, and to nothing when none of them exists.
C24_AbsoluteOrder ==
    wpc = "done" =>
        \A f \in {g \in DOMAIN reads : src[g].parses} :
            \A s \in {t \in AbsoluteImports(f) : Len(t.module) > 1} :
                LET resolved == ResolveAbsoluteImport(ModuleArgument(s))
                IN  /\ resolved = FirstExisting(JoinedFirst(s.module))
                    /\ resolved # None => resolved \in dependencies

\* The import statements of a file that name a module whose root name is
\* in the standard-library list
StandardImports(f) ==
    {s \in src[f].imports : HasModuleArgument(s) /\ s.module[1] \in standard_libs}

\* What relative or absolute resolution makes of the other statements of f
FirstPartyTargets(f) ==
    IF FileExists(f) /\ src[f].parses
    THEN {LET m == ModuleArgument(s)
          IN  IF m.dots > 0 THEN ResolveRelativeImport(m, f) ELSE ResolveAbsoluteImport(m) :
             s \in {t \in src[f].imports : HasModuleArgument(t)} \ StandardImports(f)} \ {None}
    ELSE {}

RECURSIVE ReachableFirstParty(_)
\* The least set that holds S and the first-party targets of its files
ReachableFirstParty(S) ==
    LET T == S \cup UNION {FirstPartyTargets(g) : g \in S}
    IN  IF T = S THEN S ELSE ReachableFirstParty(T)

\* C25: when the walk is over, no import of a standard-library root name
\* has resolved, whatever exists under src, and the closure is what relative
\* or absolute resolution of all the other imports reaches from the entry
\* file: nothing came in through a standard-library name, and no other
\* import was left out.
C25_StandardLibraryFirst ==
    wpc = "done" =>
        /\ \A f \in {g \in DOMAIN reads : src[g].parses} :
              \A s \in StandardImports(f) : ResolveImport(ModuleArgument(s), f) = None
        /\ dependencies = ReachableFirstParty(FirstPartyTargets(entry))

\* C25's case: the walk is over, the files read import json and json.tool,
\* src/json.py and src/json/tool.py exist and are not in the closure, and
\* another import of the same file is.
C25_Witness ==
    /\ wpc = "done"
    /\ {RootJson, JsonTool} \subseteq DOMAIN src
    /\ {ImportJson, ImportJsonTool} \subseteq StandardImports(entry)
    /\ dependencies # {}
    /\ dependencies \cap {RootJson, JsonInit, JsonTool} = {}

\* The source files on which ast.parse raises
Broken == {f \in DOMAIN src : ~src[f].parses}

\* C26: in a tree with a file that does not parse, the closure of a
\* finished walk is what the imports of the files that do parse reach from
\* the entry file, the file that does not parse counting as one without
\* imports; no step of a walk takes a file out of the closure; and a
\* build() of an existing handler in which no I/O operation raised returns
\* success.
C26_ParseErrorNonFatal ==
    /\ []((Broken # {} /\ wpc = "done") => dependencies = TransitiveClosure(entry))
    /\ []((Broken # {} /\ LambdaReturned /\ faults = 0 /\ FileExists(HandlerFile(unit.name)))
            => ret = "success")
    /\ [][wpc = "walking" => dependencies \subseteq dependencies']_vars

\* C26's case: a build() has returned success for a handler that imports
\* domain/order.py, which does not parse and whose text imports
\* domain.money: the archive holds domain/order.py and user_handler.py,
\* which the handler imports as well, and not domain/money.py.
C26_Witness ==
    /\ LambdaReturned /\ ret = "success"
    /\ Broken = {DomainOrder}
    /\ FromDomainMoney \in src[DomainOrder].imports
    /\ UnitZip \in DOMAIN archives
    /\ {DomainOrder, UserHandler} \subseteq DOMAIN archives[UnitZip]
    /\ DomainMoney \notin DOMAIN archives[UnitZip]

\* C27: whatever the order in which the walk took the import statements of
\* each file, when it is over its closure, its visited set and the files it
\* read are the same, those the tree alone determines: the files reachable
\* from the entry file, these and the entry file, and those of them that
\* exist as .py files.
C27_OrderIndependent ==
    wpc = "done" =>
        /\ dependencies = TransitiveClosure(entry)
        /\ visited = {entry} \cup TransitiveClosure(entry)
        /\ DOMAIN reads = {f \in {entry} \cup TransitiveClosure(entry) :
                               FileExists(f) /\ SuffixIsPy(f)}

\* C27's case: the walk is over on a tree where a file imports two files one
\* of which imports the other, and that one imports a third: which call
\* finds which file depends on the order of the statements.
C27_Witness ==
    /\ wpc = "done"
    /\ \E f \in DOMAIN reads : \E g, h \in ImportedBy(f) :
         /\ g # h /\ g # f /\ h # f
         /\ h \in ImportedBy(g)
         /\ ImportedBy(h) \ {f, g, h} # {}

\* The archive and the staging directory of a unit of a component, and the
\* combined schema of a schema
ZipOf(c, item) == IF c = "lambdas" THEN HandlerZip(item) ELSE LayerZip(item)
StagingOf(c, item) == IF c = "lambdas" THEN HandlerBuild(item) ELSE LayerTemp(item)

\* The units discovery finds in the sources of this run
Discovered(c) == {Discover(c)[i] : i \in 1..Len(Discover(c))}

\* The files `files` (path -> content) all have the content of a source
\* file of this run
FromSources(files) == \A e \in DOMAIN files : \E f \in DOMAIN src : files[e] = src[f]

\* C28: when build_all has returned, every archive in the build directory
\* is the archive of a layer or handler discovered in this run and holds
\* only content of this run's sources, every combined schema is that of a
\* schema file discovered in this run and is not the one an earlier run
\* left, and so is every staging directory left over; nothing an earlier
\* run left in the build directory is still there.
C28_OnlyThisRun ==
    (mpc = "returned" /\ ~cleanOnly) =>
        /\ \A z \in DOMAIN archives :
              /\ \E c \in {"layers", "lambdas"} : \E item \in Discovered(c) : z = ZipOf(c, item)
              /\ FromSources(archives[z])
        /\ \A d \in DOMAIN staging :
              /\ \E c \in {"layers", "lambdas"} : \E item \in Discovered(c) : d = StagingOf(c, item)
              /\ FromSources(staging[d])
        /\ \A n \in DOMAIN combined :
              /\ \E item \in Discovered("schemas") : n = SchemaFile(item)
              /\ n \in DOMAIN earlier.combined => combined[n] # earlier.combined[n]
        /\ \A z \in DOMAIN earlier.archives :
              z \in DOMAIN archives => archives[z] # earlier.archives[z]

\* C28's case: build_all has returned on a build directory in which an
\* earlier run had left the archive of a handler that is no longer in the
\* sources, the archive of a layer that still is, a combined schema and a
\* staging directory; the archive of the layer is there, rebuilt.
C28_Witness ==
    /\ mpc = "returned" /\ ~cleanOnly
    /\ HandlerZip("old_handler") \in DOMAIN earlier.archives
    /\ ~FileExists(HandlerFile("old_handler"))
    /\ "old.graphql" \in DOMAIN earlier.combined
    /\ earlier.staging # << >>
    /\ LayerZip("adapters") \in DOMAIN earlier.archives
    /\ LayerZip("adapters") \in DOMAIN archives

\* C29: when build_all has returned, the archive of a layer or handler is
\* in the build directory only if the build of that unit returned success.
C29_ArchiveOnlyOnSuccess ==
    (mpc = "returned" /\ ~cleanOnly) =>
        \A i \in 1..Len(attempted) :
            (/\ attempted[i].component \in {"layers", "lambdas"}
             /\ ZipOf(attempted[i].component, attempted[i].item) \in DOMAIN archives)
            => attempted[i].ret = "success"

\* A valid project with no handler file and no schema file to discover
NothingButLayers ==
    /\ ~ConfigurationError
    /\ LambdaDiscover = << >>
    /\ AppSyncDiscover = << >>

\* C30: the step of _build_components for a component whose discovery is
\* empty builds nothing and leaves all_success as it is; and a run of main
\* without --clean on a valid project with no handler file and no schema
\* file, in which no I/O operation raised, has built the layers only, has
\* all_success True at the return of build_all, and exits with 0.
C30_EmptyDiscoverySucceeds ==
    /\ [][(mpc = "discover" /\ Discover(component) = << >> /\ steps' # steps) =>
            /\ all_success' = all_success
            /\ attempted' = attempted
            /\ builds' = builds
            /\ pc' = pc
            /\ mpc' \in {"discover", "summary"}
         ]_vars
    /\ []((NothingButLayers /\ ~cleanOnly /\ faults = 0) =>
            /\ \A i \in 1..Len(attempted) : attempted[i].component = "layers"
            /\ mpc \in {"returned", "exited"} => all_success
            /\ mpc = "exited" => exitCode = 0)

\* C30's case: main has exited with 0 on a valid project with no handler
\* file and no schema file, after build_all went through the phases of the
\* functions and of the schemas and built the two layers.
C30_Witness ==
    /\ NothingButLayers /\ ~cleanOnly
    /\ mpc = "exited"
    /\ exitCode = 0
    /\ steps = <<1, 2, 3, 4, 5, 6>>
    /\ Len(attempted) = 2

=============================================================================
